---- MODULE Spec2Model ----
(***************************************************************************)
(* A model of package_builder's build orchestration (build_manager.py):    *)
(* BuildManager.build and its backend units, the strict dependency check   *)
(* with its SemVer matcher, and the build-cache key of ProjectInitializer. *)
(*                                                                         *)
(* Strings the code parses (versions, specifiers, package names) are       *)
(* sequences of one-character strings, so that split, startswith, int()    *)
(* and replace() are computed as the code computes them.                   *)
(***************************************************************************)
EXTENDS Integers, Sequences, FiniteSets, TLC

VARIABLES
    \* ---- BuildManager.build (specification Spec) ----
    pc,            \* position of the calling thread inside build()
    build_type,    \* the build_type argument of the current call
    temp_dir,      \* whether a temp_dir argument was given
    config,        \* the project's pypackage.toml as the call sees it
    envExists,     \* env_manager.exists(): the project's virtual environment
    cpu_count,     \* os.cpu_count() of the host
    cache,         \* .build-cache/<backend>.json: stored key per backend name
    backend_names, \* the selected backend list (primary, then build.backends)
    all_requirements, \* deduplicated build requirements of the selected backends
    trace,         \* calls the calling thread made to its collaborators, in order
    next_backend,  \* index of the dispatch loop over collected_backends
    unit,          \* per backend name: the state of its submitted unit of work
    unitLog,       \* per backend name: the calls its unit made, in order
    results,       \* the results list of build(), in append order
    collected,     \* backend names whose future as_completed has yielded
    outcome,       \* what the call returned: "none" while running, "True", "False"
    escaped,       \* TRUE when an exception left build()
    excInFlow,     \* TRUE when an exception was raised on the calling thread
    \* ---- _strict_dependency_check (specification SpecCheck) ----
    cpc,           \* position inside _strict_dependency_check
    declared,      \* get_dependencies(dev=False): ordered (name, spec) entries
    venv_pkgs,     \* _list_installed_in_venv()
    sys_pkgs,      \* _list_installed_in_system()
    merged,        \* dict(sys_pkgs) updated with venv_pkgs
    idx,           \* number of declared entries the loop has evaluated
    all_ok,        \* the loop's all_ok flag
    reports,       \* diagnostics printed so far: (name, kind) in order
    queried,       \* the environment views the check has queried
    checkResult,   \* what the check returned: "none", "True", "False"
    checkRaised,   \* TRUE when an exception left the check
    \* ---- _cache_key (specification SpecKey) ----
    kpc,           \* position of the key computation
    cfgA, cfgB,    \* two configuration mappings, as ordered (key, value) entries
    keyBackend,    \* the backend name the keys are computed for
    keyA, keyB,    \* the keys computed for cfgA and cfgB
    \* ---- _cmp_semver and _semver_matches (specification SpecSemver) ----
    spc,           \* position of the evaluation
    sver,          \* the version string under test
    sother,        \* a second version string: the operand or base of an atom
    sop,           \* the operator prefix of the first atom ("none": no first atom)
    stail,         \* what follows the first atom: a separator and a second atom
    cmpAB, cmpBA,  \* _cmp_semver(sver, sother) and _cmp_semver(sother, sver)
    cmpAA,         \* _cmp_semver(sver, sver)
    caretMatch,    \* _semver_matches(sver, "^" + sother)
    tildeMatch,    \* _semver_matches(sver, "~" + sother)
    neMatch,       \* _semver_matches(sver, "!=" + sother)
    compatMatch,   \* _semver_matches(sver, "~=" + sother)
    sparsed,       \* _parse_semver(sver)
    specMatch,     \* _semver_matches(sver, the spec built from sop, sother, stail)
    \* ---- DependencyResolver, ensure_and_copy_dependencies (SpecResolve) ----
    rpc,           \* position inside ensure_and_copy_dependencies
    rdeclared,     \* the declared dependencies: ordered (name, spec) entries
    rgraph,        \* the environment's working set: name -> version, requires
    rpackaging,    \* whether the `packaging` library can be imported
    rquery,        \* how the last working-set query ended: "ok", "exit", "garbage"
    rconflicts,    \* the conflicts of the first detection
    rremaining,    \* the conflicts of the detection after the remediation round
    rrounds,       \* remediation rounds run so far
    rpip,          \* the requirement strings handed to `pip install`, in order
    rmessage,      \* the conflict lines of the RuntimeError's message
    rclosure,      \* resolve_transitive(dependencies)
    rclosure2,     \* resolve_transitive of rclosure's names with empty specs
    rerror,        \* the exception that left the function: "", "query", "conflicts"
    \* ---- PluginManager.before / after (SpecPlugins) ----
    hpc,           \* position inside before() and after()
    hplugins,      \* self._plugins: what each loaded plugin's hooks do
    hidx,          \* index of the plugin the running loop is at
    hok,           \* the local `ok` of before()
    hcalls,        \* the hook calls made so far: (hook, plugin index)
    hresult,       \* what before() returned: "none", "True", "False"
    hescaped,      \* whether an exception left before() or after()
    \* ---- EventBus (SpecBus) ----
    esubs,         \* self._subscribers: event name -> list of handlers
    elock,         \* owner of self._lock, "none" when free
    epc,           \* position of each thread
    esnap,         \* the local `handlers` of the publish in flight
    eidx,          \* index of the handler the delivery loop is at
    edelivered,    \* the handlers invoked by the publish in flight, in order
    eops,          \* subscribe/unsubscribe calls the other thread has left
    eescaped,      \* whether an exception left publish()
    \* ---- backend.build of concurrent units (SpecUnits) ----
    upc,           \* position of each backend unit inside backend.build
    uenv,          \* whether the project environment exists
    ugraph,        \* the working set of the shared environment
    udeclared,     \* config["dependencies"]
    uconflicts,    \* each unit's conflicts of its first detection
    uidx,          \* each unit's place in its remediation loop
    ulog,          \* environment creations and pip installs begun: (unit, command)
    uinflight,     \* the units whose pip install is running
    xarg,          \* the temp_dir argument of build(): "none" or "given"
    xheap,         \* the BuildContext objects constructed, by identity
    xctx,          \* each backend unit's `context` (0 before it has one)
    xpc,           \* position of each backend unit in _build_single_backend
    xmade          \* how many directories tempfile.mkdtemp has created

buildVars == <<pc, build_type, temp_dir, config, envExists, cpu_count, cache,
               backend_names, all_requirements, trace, next_backend, unit,
               unitLog, results, collected, outcome, escaped, excInFlow>>
checkVars == <<cpc, declared, venv_pkgs, sys_pkgs, merged, idx, all_ok, reports,
               queried, checkResult, checkRaised>>
keyVars == <<kpc, cfgA, cfgB, keyBackend, keyA, keyB>>
semVars == <<spc, sver, sother, sop, stail, cmpAB, cmpBA, cmpAA, caretMatch,
             tildeMatch, neMatch, compatMatch, sparsed, specMatch>>
resVars == <<rpc, rdeclared, rgraph, rpackaging, rquery, rconflicts, rremaining,
             rrounds, rpip, rmessage, rclosure, rclosure2, rerror>>
plugVars == <<hpc, hplugins, hidx, hok, hcalls, hresult, hescaped>>
busVars == <<esubs, elock, epc, esnap, eidx, edelivered, eops, eescaped>>
unitsVars == <<upc, uenv, ugraph, udeclared, uconflicts, uidx, ulog, uinflight>>
ctxVars == <<xarg, xheap, xctx, xpc, xmade>>
extVars == <<plugVars, busVars, unitsVars, ctxVars>>
vars == <<buildVars, checkVars, keyVars, semVars, resVars, extVars>>

PlugUnused ==
    /\ hpc = "unused" /\ hplugins = <<>> /\ hidx = 0 /\ hok = TRUE /\ hcalls = <<>>
    /\ hresult = "none" /\ hescaped = FALSE

BusUnused ==
    /\ esubs = <<>> /\ elock = "none" /\ epc = <<>> /\ esnap = <<>> /\ eidx = 0
    /\ edelivered = <<>> /\ eops = 0 /\ eescaped = FALSE

UnitsUnused ==
    /\ upc = <<>> /\ uenv = FALSE /\ ugraph = <<>> /\ udeclared = <<>>
    /\ uconflicts = <<>> /\ uidx = <<>> /\ ulog = <<>> /\ uinflight = {}

CtxUnused ==
    /\ xarg = "unused" /\ xheap = <<>> /\ xctx = <<>> /\ xpc = <<>> /\ xmade = 0

ExtUnused == PlugUnused /\ BusUnused /\ UnitsUnused /\ CtxUnused

(***************************************************************************)
(* Strings as character sequences.                                         *)
(***************************************************************************)
Digits == <<"0", "1", "2", "3", "4", "5", "6", "7", "8", "9">>

IsDigit(c) == \E i \in 1..Len(Digits) : Digits[i] = c

DigitVal(c) == (CHOOSE i \in 1..Len(Digits) : Digits[i] = c) - 1

\* str.startswith(prefix)
StartsWith(s, p) == Len(s) >= Len(p) /\ SubSeq(s, 1, Len(p)) = p

\* s[n:]
Drop(s, n) == SubSeq(s, n + 1, Len(s))

\* index of the first occurrence of character c in s, 0 when absent
RECURSIVE FirstIndex(_, _, _)
FirstIndex(s, c, i) ==
    IF i > Len(s) THEN 0
    ELSE IF s[i] = c THEN i
    ELSE FirstIndex(s, c, i + 1)

\* str.split(sep) for a one-character separator: always at least one part
RECURSIVE SplitOn(_, _)
SplitOn(s, c) ==
    LET i == FirstIndex(s, c, 1)
    IN  IF i = 0 THEN <<s>>
        ELSE <<SubSeq(s, 1, i - 1)>> \o SplitOn(Drop(s, i), c)

\* int(s) succeeds on a non-empty run of decimal digits (the characters the
\* model's strings are made of hold no sign, blank or underscore)
IntParses(s) == Len(s) > 0 /\ \A i \in 1..Len(s) : IsDigit(s[i])

RECURSIVE IntOf(_)
IntOf(s) ==
    IF Len(s) = 0 THEN 0
    ELSE 10 * IntOf(SubSeq(s, 1, Len(s) - 1)) + DigitVal(s[Len(s)])

\* str(n) of a natural number, as f"{m+1}.0.0" formats it
RECURSIVE StrOf(_)
StrOf(n) ==
    IF n < 10 THEN <<Digits[n + 1]>>
    ELSE StrOf(n \div 10) \o <<Digits[(n % 10) + 1]>>

\* str.replace(a, b) for one-character a and b
Replace(s, a, b) == [i \in 1..Len(s) |-> IF s[i] = a THEN b ELSE s[i]]

(***************************************************************************)
(* SemVer utilities of BuildManager.                                       *)
(***************************************************************************)
ZeroVersion == [major |-> 0, minor |-> 0, patch |-> 0, hasPre |-> FALSE, pre |-> <<>>]

\* _parse_semver: (major, minor, patch, pre); any int() failure among the
\* first three components yields (0, 0, 0, None)
ParseSemver(v) ==
    LET dash  == FirstIndex(v, "-", 1)
        core  == IF dash = 0 THEN v ELSE SubSeq(v, 1, dash - 1)
        parts == SplitOn(core, ".")
        used  == SubSeq(parts, 1, IF Len(parts) < 3 THEN Len(parts) ELSE 3)
    IN  IF \A i \in 1..Len(used) : IntParses(used[i])
        THEN [major  |-> IntOf(parts[1]),
              minor  |-> IF Len(parts) > 1 THEN IntOf(parts[2]) ELSE 0,
              patch  |-> IF Len(parts) > 2 THEN IntOf(parts[3]) ELSE 0,
              hasPre |-> dash # 0,
              pre    |-> IF dash = 0 THEN <<>> ELSE Drop(v, dash)]
        ELSE ZeroVersion

\* truthiness of the parsed prerelease tag: None and "" are falsy
PreTruthy(p) == p.hasPre /\ Len(p.pre) > 0

\* tuple comparison (am, an, ap) < (bm, bn, bp)
CoreLess(a, b) ==
    \/ a.major < b.major
    \/ a.major = b.major /\ a.minor < b.minor
    \/ a.major = b.major /\ a.minor = b.minor /\ a.patch < b.patch

\* a comparison of the numeric cores alone
CmpSemverCoreOnly(a, b) ==
    LET pa == ParseSemver(a)
        pb == ParseSemver(b)
    IN  IF CoreLess(pa, pb) THEN -1
        ELSE IF CoreLess(pb, pa) THEN 1
        ELSE 0

\* a comparison that ranks any tagged left operand below its right operand
CmpSemverTagFirst(a, b) ==
    LET pa == ParseSemver(a)
        pb == ParseSemver(b)
    IN  IF CoreLess(pa, pb) THEN -1
        ELSE IF CoreLess(pb, pa) THEN 1
        ELSE IF PreTruthy(pa) THEN -1
        ELSE IF PreTruthy(pb) THEN 1
        ELSE 0

\* _cmp_semver
CmpSemver(a, b) ==
    LET pa == ParseSemver(a)
        pb == ParseSemver(b)
    IN  IF CoreLess(pa, pb) THEN -1
        ELSE IF CoreLess(pb, pa) THEN 1
        ELSE IF PreTruthy(pa) /\ ~PreTruthy(pb) THEN -1
        ELSE IF PreTruthy(pb) /\ ~PreTruthy(pa) THEN 1
        ELSE 0

\* the separators of re.split(r"[\s,]+", spec)
IsSeparator(c) == c \in {" ", ","}

\* re.split(r"[\s,]+", spec) with the empty pieces filtered out
RECURSIVE SpecParts(_, _)
SpecParts(s, cur) ==
    IF Len(s) = 0 THEN (IF Len(cur) = 0 THEN <<>> ELSE <<cur>>)
    ELSE IF IsSeparator(s[1])
         THEN (IF Len(cur) = 0 THEN <<>> ELSE <<cur>>) \o SpecParts(Drop(s, 1), <<>>)
         ELSE SpecParts(Drop(s, 1), Append(cur, s[1]))

\* the operator prefixes match_one tries, in the order it tries them
CompareOps == << <<"=", "=">>, <<">", "=">>, <<"<", "=">>, <<">">>, <<"<">> >>

\* an upper bound that stays within the minor series
CaretUpperNextMinor(base) ==
    StrOf(ParseSemver(base).major) \o <<".">>
        \o StrOf(ParseSemver(base).minor + 1) \o <<".", "0">>

\* upper = f"{m+1}.0.0" with m the major of the base
CaretUpper(base) == StrOf(ParseSemver(base).major + 1) \o <<".", "0", ".", "0">>

\* an upper bound at the next major
TildeUpperNextMajor(base) == StrOf(ParseSemver(base).major + 1) \o <<".", "0", ".", "0">>

\* upper = f"{m}.{n+1}.0" with m, n the major and minor of the base
TildeUpper(base) ==
    StrOf(ParseSemver(base).major) \o <<".">>
        \o StrOf(ParseSemver(base).minor + 1) \o <<".", "0">>

\* match_one of _semver_matches
MatchOne(version, pat) ==
    IF StartsWith(pat, <<"^">>)
    THEN LET base == Drop(pat, 1)
         IN  /\ CmpSemver(version, base) >= 0
             /\ CmpSemver(version, CaretUpper(base)) < 0
    ELSE IF StartsWith(pat, <<"~">>)
    THEN LET base == Drop(pat, 1)
         IN  /\ CmpSemver(version, base) >= 0
             /\ CmpSemver(version, TildeUpper(base)) < 0
    ELSE IF \E k \in 1..Len(CompareOps) : StartsWith(pat, CompareOps[k])
    THEN LET k   == CHOOSE j \in 1..Len(CompareOps) :
                        /\ StartsWith(pat, CompareOps[j])
                        /\ \A h \in 1..(j - 1) : ~StartsWith(pat, CompareOps[h])
             op  == CompareOps[k]
             cmp == CmpSemver(version, Drop(pat, Len(op)))
         IN  IF op = <<"=", "=">> THEN cmp = 0
             ELSE IF op = <<">", "=">> THEN cmp >= 0
             ELSE IF op = <<"<", "=">> THEN cmp <= 0
             ELSE IF op = <<">">> THEN cmp > 0
             ELSE cmp < 0
    ELSE CmpSemver(version, pat) = 0

\* a matcher that stops after the first atom
SemverMatchesFirstOnly(version, spec) ==
    LET parts == SpecParts(spec, <<>>)
    IN  Len(parts) > 0 => MatchOne(version, parts[1])

\* _semver_matches: the conjunction of the atoms of spec
SemverMatches(version, spec) ==
    LET parts == SpecParts(spec, <<>>)
    IN  \A i \in 1..Len(parts) : MatchOne(version, parts[i])

(***************************************************************************)
(* _cmp_semver and _semver_matches on their own (specification SpecSemver). *)
(***************************************************************************)
MaxPart == 1

\* release triples beyond the small ones: the versions of the examples, and
\* parts whose successor gains a digit
ExtraTriples ==
    {<<1, 2, 0>>, <<1, 2, 5>>, <<1, 3, 0>>, <<2, 0, 0>>,
     <<9, 0, 0>>, <<10, 0, 0>>, <<1, 9, 0>>, <<1, 10, 0>>}

CoreTriples == {<<x, y, z>> : x, y, z \in 0..MaxPart} \cup ExtraTriples

\* the text "X.Y.Z" of a release triple
Render(t) == StrOf(t[1]) \o <<".">> \o StrOf(t[2]) \o <<".">> \o StrOf(t[3])

\* version strings that are not a plain X.Y.Z: empty, malformed, short, tagged
OddVersions ==
    {<<>>,
     <<"x">>,
     <<"1", ".", "2">>,
     <<"1", ".", "x", ".", "0">>,
     <<"1", ".", "2", ".", "0", "-", "r", "c", "1">>,
     <<"1", ".", "2", ".", "0", "-", "b", "e", "t", "a">>,
     <<"2", ".", "0", ".", "0", "-", "a", "l", "p", "h", "a">>}

SemVersions == {Render(t) : t \in CoreTriples} \cup OddVersions

\* the first atom of a spec: absent, without operator, or with one of CompareOps
NoAtom == <<"none">>
FirstOps == {NoAtom, <<>>} \cup {CompareOps[k] : k \in 1..Len(CompareOps)}

\* what may follow the first atom: nothing, or a separator run and a second atom
Tails ==
    {[present |-> FALSE, sep |-> <<>>, op |-> <<>>, operand |-> <<>>],
     [present |-> TRUE, sep |-> <<",">>, op |-> <<">", "=">>,
      operand |-> <<"1", ".", "0", ".", "0">>],
     [present |-> TRUE, sep |-> <<" ">>, op |-> <<"<">>,
      operand |-> <<"2", ".", "0", ".", "0">>],
     [present |-> TRUE, sep |-> <<",", " ">>, op |-> <<>>,
      operand |-> <<"1", ".", "2", ".", "5">>],
     [present |-> TRUE, sep |-> <<" ", ",", " ">>, op |-> <<>>, operand |-> <<>>]}

\* the spec string: the first atom, then the tail
BuildSpec(op, operand, tail) ==
    (IF op = NoAtom THEN <<>> ELSE op \o operand)
        \o (IF tail.present THEN tail.sep \o tail.op \o tail.operand ELSE <<>>)

SemUnused ==
    /\ spc = "unused" /\ sver = <<>> /\ sother = <<>> /\ sop = <<>> /\ stail = <<>>
    /\ cmpAB = 0 /\ cmpBA = 0 /\ cmpAA = 0
    /\ caretMatch = FALSE /\ tildeMatch = FALSE /\ specMatch = FALSE
    /\ neMatch = FALSE /\ compatMatch = FALSE /\ sparsed = ZeroVersion

SemInit ==
    /\ spc = "start"
    /\ sver \in SemVersions
    /\ sother \in SemVersions
    /\ sop \in FirstOps
    /\ stail \in Tails
    /\ cmpAB = 0 /\ cmpBA = 0 /\ cmpAA = 0
    /\ caretMatch = FALSE /\ tildeMatch = FALSE /\ specMatch = FALSE
    /\ neMatch = FALSE /\ compatMatch = FALSE /\ sparsed = ZeroVersion

\* the comparisons and matches of the chosen strings
SemverEval ==
    /\ spc = "start"
    /\ cmpAB' = CmpSemver(sver, sother)
    /\ cmpBA' = CmpSemver(sother, sver)
    /\ cmpAA' = CmpSemver(sver, sver)
    /\ caretMatch' = SemverMatches(sver, <<"^">> \o sother)
    /\ tildeMatch' = SemverMatches(sver, <<"~">> \o sother)
    /\ neMatch' = SemverMatches(sver, <<"!", "=">> \o sother)
    /\ compatMatch' = SemverMatches(sver, <<"~", "=">> \o sother)
    /\ sparsed' = ParseSemver(sver)
    /\ specMatch' = SemverMatches(sver, BuildSpec(sop, sother, stail))
    /\ spc' = "done"
    /\ UNCHANGED <<sver, sother, sop, stail>>
    /\ UNCHANGED <<buildVars, checkVars, keyVars, resVars, extVars>>

(***************************************************************************)
(* _strict_dependency_check (specification SpecCheck).                     *)
(***************************************************************************)
MaxDeclared == 2

NameA == <<"a">>
NameDash == <<"a", "-", "b">>
NameUnder == <<"a", "_", "b">>
DeclaredNames == {NameA, NameDash, NameUnder}

V125 == <<"1", ".", "2", ".", "5">>
V200 == <<"2", ".", "0", ".", "0">>
InstalledVersions == {V125, V200}

SpecAny == <<>>
SpecCaret == <<"^", "1", ".", "2", ".", "0">>
SpecAtLeast2 == <<">", "=", "2", ".", "0", ".", "0">>
\* a dependency declared as a TOML table instead of a string
TableSpec == <<"{table}">>
DeclaredSpecs == {SpecAny, SpecCaret, SpecAtLeast2, TableSpec}

\* re.split accepts a str only and raises TypeError on anything else
IsStr(spec) == spec # TableSpec

\* an ordered name -> version mapping with the given names
ViewsOver(names) == UNION {[d -> InstalledVersions] : d \in SUBSET names}

\* `pip list` of the project environment ({} when the query fails)
VenvViews ==
    ViewsOver({NameA, NameUnder})
        \cup {[n \in {NameDash, NameUnder} |-> IF n = NameDash THEN V200 ELSE V125]}

\* `pip list` of the host interpreter ({} when the query fails)
SysViews ==
    {[n \in {} |-> V125],
     [n \in {NameA} |-> V200],
     [n \in {NameA, NameUnder} |-> V125]}

\* get_dependencies(dev=False): a dict, so the names are distinct
DeclaredMappings ==
    {d \in UNION {[1..n -> [name : DeclaredNames, spec : DeclaredSpecs]] :
                       n \in 0..MaxDeclared} :
        \A i, j \in 1..Len(d) : i # j => d[i].name # d[j].name}

\* a merge that keeps the host's version of a name both views list
MergeViewsHostFirst(sys, venv) ==
    [n \in (DOMAIN sys) \cup (DOMAIN venv) |->
        IF n \in DOMAIN sys THEN sys[n] ELSE venv[n]]

\* merged = dict(sys_pkgs); merged.update(venv_pkgs)
MergeViews(sys, venv) ==
    [n \in (DOMAIN sys) \cup (DOMAIN venv) |->
        IF n \in DOMAIN venv THEN venv[n] ELSE sys[n]]

\* dict.get(name) with its falsy results (a missing key, an empty version) as <<>>
DictGet(view, name) == IF name \in DOMAIN view THEN view[name] ELSE <<>>

\* a lookup by the exact name only
InstalledVerExact(view, name) == DictGet(view, name)

\* merged.get(name) or merged.get(name.replace("-", "_"))
InstalledVer(view, name) ==
    IF Len(DictGet(view, name)) > 0 THEN DictGet(view, name)
    ELSE DictGet(view, Replace(name, "-", "_"))

\* the body of the loop over declared.items(): the diagnostic it prints, or
\* "RAISE" when _semver_matches is handed a spec that is not a string
CheckOne(view, name, spec) ==
    LET installed_ver == InstalledVer(view, name)
    IN  IF Len(installed_ver) = 0 THEN "MISSING"
        ELSE IF Len(spec) > 0 /\ ~IsStr(spec) THEN "RAISE"
        ELSE IF Len(spec) > 0 /\ ~SemverMatches(installed_ver, spec) THEN "MISMATCH"
        ELSE "OK"

\* except Exception: print(...); return False
CheckOnException == [result |-> "False", raised |-> FALSE]

CheckUnused ==
    /\ cpc = "unused" /\ declared = <<>> /\ venv_pkgs = <<>> /\ sys_pkgs = <<>>
    /\ merged = <<>> /\ idx = 0 /\ all_ok = TRUE /\ reports = <<>>
    /\ queried = {} /\ checkResult = "none" /\ checkRaised = FALSE

\* the entry of the check without the early return for an empty mapping
CheckStartAlwaysQueries ==
    /\ cpc = "start"
    /\ \E loadRaises \in BOOLEAN :
         IF loadRaises
         THEN /\ checkResult' = CheckOnException.result
              /\ checkRaised' = CheckOnException.raised
              /\ cpc' = "failed"
              /\ UNCHANGED <<queried, merged>>
         ELSE /\ queried' = {"venv", "sys"}
              /\ merged' = MergeViews(sys_pkgs, venv_pkgs)
              /\ cpc' = "loop"
              /\ UNCHANGED <<checkResult, checkRaised>>
    /\ UNCHANGED <<declared, venv_pkgs, sys_pkgs, idx, all_ok, reports>>
    /\ UNCHANGED <<buildVars, keyVars, semVars, resVars, extVars>>

\* lines 310-321: get_dependencies, the empty shortcut, the two queries, the merge
CheckStart ==
    /\ cpc = "start"
    /\ \E loadRaises \in BOOLEAN :
         IF loadRaises
         THEN /\ checkResult' = CheckOnException.result
              /\ checkRaised' = CheckOnException.raised
              /\ cpc' = "failed"
              /\ UNCHANGED <<queried, merged>>
         ELSE IF Len(declared) = 0
         THEN /\ checkResult' = "True"
              /\ cpc' = "done"
              /\ UNCHANGED <<queried, merged, checkRaised>>
         ELSE /\ queried' = {"venv", "sys"}
              /\ merged' = MergeViews(sys_pkgs, venv_pkgs)
              /\ cpc' = "loop"
              /\ UNCHANGED <<checkResult, checkRaised>>
    /\ UNCHANGED <<declared, venv_pkgs, sys_pkgs, idx, all_ok, reports>>
    /\ UNCHANGED <<buildVars, keyVars, semVars, resVars, extVars>>

\* the loop leaving at the first entry that fails
CheckStepShortCircuit ==
    /\ cpc = "loop"
    /\ idx < Len(declared)
    /\ LET e    == declared[idx + 1]
           kind == CheckOne(merged, e.name, e.spec)
       IN  IF kind = "RAISE"
           THEN /\ checkResult' = CheckOnException.result
                /\ checkRaised' = CheckOnException.raised
                /\ cpc' = "failed"
                /\ UNCHANGED <<reports, all_ok, idx>>
           ELSE /\ reports' = Append(reports, [name |-> e.name, kind |-> kind])
                /\ all_ok' = (all_ok /\ kind = "OK")
                /\ idx' = IF kind = "OK" THEN idx + 1 ELSE Len(declared)
                /\ UNCHANGED <<cpc, checkResult, checkRaised>>
    /\ UNCHANGED <<declared, venv_pkgs, sys_pkgs, merged, queried>>
    /\ UNCHANGED <<buildVars, keyVars, semVars, resVars, extVars>>

\* lines 324-335: one iteration of the loop
CheckStep ==
    /\ cpc = "loop"
    /\ idx < Len(declared)
    /\ LET e    == declared[idx + 1]
           kind == CheckOne(merged, e.name, e.spec)
       IN  IF kind = "RAISE"
           THEN /\ checkResult' = CheckOnException.result
                /\ checkRaised' = CheckOnException.raised
                /\ cpc' = "failed"
                /\ UNCHANGED <<reports, all_ok, idx>>
           ELSE /\ reports' = Append(reports, [name |-> e.name, kind |-> kind])
                /\ all_ok' = (all_ok /\ kind = "OK")
                /\ idx' = idx + 1
                /\ UNCHANGED <<cpc, checkResult, checkRaised>>
    /\ UNCHANGED <<declared, venv_pkgs, sys_pkgs, merged, queried>>
    /\ UNCHANGED <<buildVars, keyVars, semVars, resVars, extVars>>

\* line 336: return all_ok
CheckReturn ==
    /\ cpc = "loop"
    /\ idx = Len(declared)
    /\ checkResult' = (IF all_ok THEN "True" ELSE "False")
    /\ cpc' = "done"
    /\ UNCHANGED <<declared, venv_pkgs, sys_pkgs, merged, idx, all_ok, reports,
                   queried, checkRaised>>
    /\ UNCHANGED <<buildVars, keyVars, semVars, resVars, extVars>>

(***************************************************************************)
(* The build-cache key, ProjectInitializer._cache_key (specification       *)
(* SpecKey).  A configuration mapping is a sequence of entries in          *)
(* insertion order; an entry's value is an integer, a TOML date (which     *)
(* tomllib loads as datetime.date) or a nested mapping.                    *)
(***************************************************************************)
IntValue(t) == [kind |-> "int", tok |-> t, sub |-> <<>>]
DateValue(t) == [kind |-> "date", tok |-> t, sub |-> <<>>]
MapValue(m) == [kind |-> "map", tok |-> "", sub |-> m]
Entry(k, v) == [k |-> k, kind |-> v.kind, tok |-> v.tok, sub |-> v.sub]

\* the keys a mapping may hold, in the order Python sorts them
KeyOrder == <<"a", "b", "x", "y">>
KeyRank(k) == CHOOSE i \in 1..Len(KeyOrder) : KeyOrder[i] = k

ScalarValues == {IntValue("1"), IntValue("2"), DateValue("2024-01-01")}
InnerValues == {IntValue("1"), DateValue("2024-01-01")}

\* the orderings of a mapping over the given keys, values drawn from vals
MappingsOver(keys, vals) ==
    {m \in [1..Cardinality(keys) -> [k : keys, kind : {"int", "date", "map"},
                                      tok : {v.tok : v \in vals},
                                      sub : {v.sub : v \in vals}]] :
        /\ \A i, j \in 1..Len(m) : i # j => m[i].k # m[j].k
        /\ \A i \in 1..Len(m) :
              [kind |-> m[i].kind, tok |-> m[i].tok, sub |-> m[i].sub] \in vals}

InnerMappings == MappingsOver({"x", "y"}, InnerValues)
TopValues == ScalarValues \cup {MapValue(m) : m \in InnerMappings}
ConfigMappings == UNION {MappingsOver(ks, TopValues) : ks \in SUBSET {"a", "b"}}

Keys(m) == {m[i].k : i \in 1..Len(m)}
At(m, k) == m[CHOOSE i \in 1..Len(m) : m[i].k = k]

\* dict equality: the same keys with equal values, whatever the insertion order
RECURSIVE DeepEqual(_, _)
DeepEqual(m, n) ==
    /\ Keys(m) = Keys(n)
    /\ \A k \in Keys(m) :
          /\ At(m, k).kind = At(n, k).kind
          /\ At(m, k).tok = At(n, k).tok
          /\ DeepEqual(At(m, k).sub, At(n, k).sub)

\* json.dumps raises TypeError on a value it cannot serialise
RECURSIVE JsonSerializable(_)
JsonSerializable(m) ==
    \A i \in 1..Len(m) :
        /\ m[i].kind # "date"
        /\ JsonSerializable(m[i].sub)

\* sort_keys=True: the entries in key order
RECURSIVE SortByKey(_)
SortByKey(m) ==
    IF Len(m) = 0 THEN <<>>
    ELSE LET least == CHOOSE i \in 1..Len(m) :
                          \A j \in 1..Len(m) : KeyRank(m[i].k) <= KeyRank(m[j].k)
             rest  == [j \in 1..(Len(m) - 1) |-> IF j < least THEN m[j] ELSE m[j + 1]]
         IN  <<m[least]>> \o SortByKey(rest)

\* the text of a mapping, entry by entry in the given order, as a token sequence
RECURSIVE DumpEntries(_, _, _)
DumpEntries(m, i, sorted) ==
    IF i > Len(m) THEN <<>>
    ELSE (IF i > 1 THEN <<",">> ELSE <<>>)
         \o <<m[i].k, ":">>
         \o (IF m[i].kind = "map"
             THEN <<"{">>
                  \o DumpEntries(IF sorted THEN SortByKey(m[i].sub) ELSE m[i].sub, 1, sorted)
                  \o <<"}">>
             ELSE <<m[i].kind, m[i].tok>>)
         \o DumpEntries(m, i + 1, sorted)

\* json.dumps(config, sort_keys=True, ensure_ascii=False)
JsonDumps(m) == <<"{">> \o DumpEntries(SortByKey(m), 1, TRUE) \o <<"}">>

\* str(config): the dict's repr, in insertion order
PyStr(m) == <<"{">> \o DumpEntries(m, 1, FALSE) \o <<"}">>

\* hashlib.sha256 over the bytes fed to it: a digest stands for its input
Sha256(bytes) == bytes

\* _cache_key: sha256(backend_name + dump), dump falling back to str(config)
CacheKey(cfg, backend_name) ==
    LET dump == IF JsonSerializable(cfg) THEN JsonDumps(cfg) ELSE PyStr(cfg)
    IN  Sha256(<<backend_name>> \o dump)

KeyUnused ==
    /\ kpc = "unused" /\ cfgA = <<>> /\ cfgB = <<>> /\ keyBackend = ""
    /\ keyA = <<>> /\ keyB = <<>>

KeyInit ==
    /\ kpc = "start"
    /\ cfgA \in ConfigMappings
    /\ cfgB \in ConfigMappings
    /\ keyBackend \in {"python", "rust-python"}
    /\ keyA = <<>>
    /\ keyB = <<>>

\* the key of each of the two configurations, for the same backend
ComputeKeys ==
    /\ kpc = "start"
    /\ keyA' = CacheKey(cfgA, keyBackend)
    /\ keyB' = CacheKey(cfgB, keyBackend)
    /\ kpc' = "done"
    /\ UNCHANGED <<cfgA, cfgB, keyBackend>>
    /\ UNCHANGED <<buildVars, checkVars, semVars, resVars, extVars>>

(***************************************************************************)
(* DependencyResolver and ensure_and_copy_dependencies (SpecResolve).      *)
(***************************************************************************)
ResUnused ==
    /\ rpc = "unused" /\ rdeclared = <<>> /\ rgraph = <<>> /\ rpackaging = FALSE
    /\ rquery = "none" /\ rconflicts = <<>> /\ rremaining = <<>> /\ rrounds = 0
    /\ rpip = <<>> /\ rmessage = <<>> /\ rclosure = {} /\ rclosure2 = {}
    /\ rerror = ""

MaxResolverDeclared == 2

Foo == <<"f", "o", "o">>
Bar == <<"b", "a", "r">>
Baz == <<"b", "a", "z">>
\* a name no distribution of the working set carries
Ghost == <<"g", "h", "o", "s", "t">>

SpecTilde == <<"~", "1", ".", "2", ".", "0">>
SpecBelow2 == <<"<", "2", ".", "0", ".", "0">>

\* Conflict.depender of a conflict with a declared requirement
NoDepender == <<"None">>
\* graph.get(name) of a name the working set does not hold
NoDist == [name |-> <<>>, version |-> <<>>, requires |-> <<>>, found |-> FALSE]

ResolvedPackage(name, version, requires) ==
    [name |-> name, version |-> version, requires |-> requires, found |-> TRUE]

Conflict(package, installed, required_spec, depender) ==
    [package |-> package, installed |-> installed,
     required_spec |-> required_spec, depender |-> depender]

\* graph.get(name): the working set is an ordered mapping, kept as the
\* sequence of its values
RECURSIVE GraphGet(_, _)
GraphGet(graph, name) ==
    IF graph = <<>> THEN NoDist
    ELSE IF graph[1].name = name THEN graph[1]
    ELSE GraphGet(Tail(graph), name)

(* packaging.specifiers.SpecifierSet(spec).contains(packaging.version.Version(v)) *)
(* for release-only versions: "raise" when the specifier or the version is  *)
(* rejected, otherwise whether every comma-separated clause holds.          *)
RECURSIVE StripSpaces(_)
StripSpaces(s) ==
    IF s = <<>> THEN s
    ELSE IF s[1] = " " THEN StripSpaces(Tail(s))
    ELSE IF s[Len(s)] = " " THEN StripSpaces(SubSeq(s, 1, Len(s) - 1))
    ELSE s

\* a release of one to three numeric segments, missing segments being zero
IsRelease(v) ==
    LET parts == SplitOn(v, ".")
    IN  Len(parts) <= 3 /\ \A i \in 1..Len(parts) : IntParses(parts[i])

Release(v) ==
    LET parts == SplitOn(v, ".")
    IN  [i \in 1..3 |-> IF i <= Len(parts) THEN IntOf(parts[i]) ELSE 0]

ReleaseLess(a, b) ==
    \/ a[1] < b[1]
    \/ a[1] = b[1] /\ a[2] < b[2]
    \/ a[1] = b[1] /\ a[2] = b[2] /\ a[3] < b[3]

\* the operators of a version specifier, longest first
SpecifierOps == <<<<"=", "=", "=">>, <<"~", "=">>, <<"=", "=">>, <<"!", "=">>,
                  <<"<", "=">>, <<">", "=">>, <<"<">>, <<">">>>>

ClauseOp(clause) ==
    LET hits == {i \in 1..Len(SpecifierOps) : StartsWith(clause, SpecifierOps[i])}
    IN  IF hits = {} THEN <<>>
        ELSE SpecifierOps[CHOOSE i \in hits : \A j \in hits : i <= j]

ClauseValid(clause) ==
    LET op == ClauseOp(clause)
        operand == StripSpaces(Drop(clause, Len(op)))
    IN  /\ op # <<>>
        /\ op = <<"=", "=", "=">> \/ IsRelease(operand)
        /\ op = <<"~", "=">> => Len(SplitOn(operand, ".")) >= 2

ClauseHolds(clause, version) ==
    LET op == ClauseOp(clause)
        operand == StripSpaces(Drop(clause, Len(op)))
        v == Release(version)
        o == Release(operand)
        segs == Len(SplitOn(operand, "."))
    IN  IF op = <<"=", "=", "=">> THEN version = operand
        ELSE IF op = <<"=", "=">> THEN v = o
        ELSE IF op = <<"!", "=">> THEN v # o
        ELSE IF op = <<"<", "=">> THEN ~ReleaseLess(o, v)
        ELSE IF op = <<">", "=">> THEN ~ReleaseLess(v, o)
        ELSE IF op = <<"<">> THEN ReleaseLess(v, o)
        ELSE IF op = <<">">> THEN ReleaseLess(o, v)
        ELSE /\ ~ReleaseLess(v, o)
             /\ \A i \in 1..(segs - 1) : v[i] = o[i]

SpecifierClauses(spec) ==
    LET pieces == SplitOn(spec, ",")
        stripped == [i \in 1..Len(pieces) |-> StripSpaces(pieces[i])]
    IN  SelectSeq(stripped, LAMBDA c : c # <<>>)

SpecifierContains(spec, version) ==
    LET clauses == SpecifierClauses(spec)
    IN  IF \/ \E i \in 1..Len(clauses) : ~ClauseValid(clauses[i])
           \/ ~IsRelease(version)
        THEN "raise"
        ELSE IF \A i \in 1..Len(clauses) : ClauseHolds(clauses[i], version)
             THEN "true" ELSE "false"

\* lines 712-720: the pass over the declared requirements
RECURSIVE DeclaredConflicts(_, _)
DeclaredConflicts(decl, graph) ==
    IF decl = <<>> THEN <<>>
    ELSE LET name == decl[1].name
             spec == decl[1].spec
             dist == GraphGet(graph, name)
             rest == DeclaredConflicts(Tail(decl), graph)
         IN  IF ~dist.found \/ spec = <<>> THEN rest
             ELSE IF SpecifierContains(spec, dist.version) = "false"
                  THEN <<Conflict(name, dist.version, spec, NoDepender)>> \o rest
                  ELSE rest

\* the requirements pass reporting its conflicts without a depender
RECURSIVE RequiresConflictsAnonymous(_, _, _)
RequiresConflictsAnonymous(depender, reqs, graph) ==
    IF reqs = <<>> THEN <<>>
    ELSE LET dep_name == reqs[1][1]
             spec == reqs[1][2]
             dep == GraphGet(graph, dep_name)
             rest == RequiresConflictsAnonymous(depender, Tail(reqs), graph)
         IN  IF ~dep.found \/ spec = <<>> THEN rest
             ELSE IF SpecifierContains(spec, dep.version) = "false"
                  THEN <<Conflict(dep_name, dep.version, spec, NoDepender)>> \o rest
                  ELSE rest

\* lines 723-731: the requirements of one distribution of the working set
RECURSIVE RequiresConflicts(_, _, _)
RequiresConflicts(depender, reqs, graph) ==
    IF reqs = <<>> THEN <<>>
    ELSE LET dep_name == reqs[1][1]
             spec == reqs[1][2]
             dep == GraphGet(graph, dep_name)
             rest == RequiresConflicts(depender, Tail(reqs), graph)
         IN  IF ~dep.found \/ spec = <<>> THEN rest
             ELSE IF SpecifierContains(spec, dep.version) = "false"
                  THEN <<Conflict(dep_name, dep.version, spec, depender)>> \o rest
                  ELSE rest

\* lines 722-731: the pass over every distribution, in the mapping's order
RECURSIVE TransitiveConflicts(_, _)
TransitiveConflicts(dists, graph) ==
    IF dists = <<>> THEN <<>>
    ELSE RequiresConflicts(dists[1].name, dists[1].requires, graph)
             \o TransitiveConflicts(Tail(dists), graph)

\* detect_conflicts past its snapshot: nothing without `packaging`
DetectConflicts(decl, graph, packaging) ==
    IF ~packaging THEN <<>>
    ELSE DeclaredConflicts(decl, graph) \o TransitiveConflicts(graph, graph)

\* (graph.get(n) or ResolvedPackage(n, "", [])).requires
RequiresOf(graph, n) ==
    LET dist == GraphGet(graph, n)
    IN  IF dist.found THEN dist.requires ELSE <<>>

\* resolve_transitive that leaves out names the working set does not hold
RECURSIVE WalkKnownOnly(_, _, _)
WalkKnownOnly(stack, selected, graph) ==
    IF stack = <<>> THEN selected
    ELSE LET n == stack[Len(stack)]
             rest == SubSeq(stack, 1, Len(stack) - 1)
         IN  IF n \in selected \/ ~GraphGet(graph, n).found
             THEN WalkKnownOnly(rest, selected, graph)
             ELSE LET reqs == RequiresOf(graph, n)
                      names == [i \in 1..Len(reqs) |-> reqs[i][1]]
                  IN  WalkKnownOnly(rest \o names, selected \cup {n}, graph)

\* resolve_transitive that stops at the direct requirements
WalkOneLevel(stack, selected, graph) ==
    LET top == {stack[i] : i \in 1..Len(stack)}
    IN  top \cup {m \in UNION {{RequiresOf(graph, n)[i][1] :
                                   i \in 1..Len(RequiresOf(graph, n))} : n \in top} :
                      m # <<>>}

\* lines 682-689: the stack walk, from the state (stack, selected)
RECURSIVE Walk(_, _, _)
Walk(stack, selected, graph) ==
    IF stack = <<>> THEN selected
    ELSE LET n == stack[Len(stack)]
             rest == SubSeq(stack, 1, Len(stack) - 1)
         IN  IF n \in selected THEN Walk(rest, selected, graph)
             ELSE LET now == selected \cup {n}
                      reqs == RequiresOf(graph, n)
                      names == [i \in 1..Len(reqs) |-> reqs[i][1]]
                      pushed == SelectSeq(names, LAMBDA m : m # <<>> /\ m \notin now)
                  IN  Walk(rest \o pushed, now, graph)

\* the walk that expands whatever it pops, selected already or not
RECURSIVE WalkRunUnchecked(_, _, _, _, _)
WalkRunUnchecked(stack, selected, graph, expanded, pops) ==
    IF stack = <<>> THEN [selected |-> selected, expanded |-> expanded, pops |-> pops]
    ELSE LET n == stack[Len(stack)]
             rest == SubSeq(stack, 1, Len(stack) - 1)
             now == selected \cup {n}
             reqs == RequiresOf(graph, n)
             names == [i \in 1..Len(reqs) |-> reqs[i][1]]
             pushed == SelectSeq(names, LAMBDA m : m # <<>> /\ m \notin now)
         IN  WalkRunUnchecked(rest \o pushed, now, graph, Append(expanded, n), pops + 1)

\* lines 682-689 with their bookkeeping: the names whose requires were read
\* (line 687), in order, and the number of iterations of the while loop
RECURSIVE WalkRun(_, _, _, _, _)
WalkRun(stack, selected, graph, expanded, pops) ==
    IF stack = <<>> THEN [selected |-> selected, expanded |-> expanded, pops |-> pops]
    ELSE LET n == stack[Len(stack)]
             rest == SubSeq(stack, 1, Len(stack) - 1)
         IN  IF n \in selected THEN WalkRun(rest, selected, graph, expanded, pops + 1)
             ELSE LET now == selected \cup {n}
                      reqs == RequiresOf(graph, n)
                      names == [i \in 1..Len(reqs) |-> reqs[i][1]]
                      pushed == SelectSeq(names, LAMBDA m : m # <<>> /\ m \notin now)
                  IN  WalkRun(rest \o pushed, now, graph, Append(expanded, n), pops + 1)

\* resolve_transitive past its snapshot: names is list(declared.keys())
ResolveTransitive(names, graph) == Walk(names, {}, graph)

\* the lines of the RuntimeError: only the first conflict
ConflictLinesFirstOnly(remaining) ==
    IF remaining = <<>> THEN <<>>
    ELSE <<<<" ", " ">> \o remaining[1].package
             \o <<":", " ", "i", "n", "s", "t", "a", "l", "l", "e", "d", " ">>
             \o remaining[1].installed
             \o <<",", " ", "r", "e", "q", "u", "i", "r", "e", "d", " ">>
             \o remaining[1].required_spec>>

\* python_common.py lines 86-88: one line per remaining conflict
ConflictLines(remaining) ==
    [i \in 1..Len(remaining) |->
        <<" ", " ">> \o remaining[i].package
            \o <<":", " ", "i", "n", "s", "t", "a", "l", "l", "e", "d", " ">>
            \o remaining[i].installed
            \o <<",", " ", "r", "e", "q", "u", "i", "r", "e", "d", " ">>
            \o remaining[i].required_spec]

\* how a run of the interpreter that lists the working set can end
QueryOutcomes == {"ok", "exit", "garbage"}

\* the specifiers a requirement is declared with; a name outside the working
\* set is declared without one
ResolverSpecs(name) ==
    IF name = Ghost THEN {SpecAny}
    ELSE {SpecAny, SpecCaret, SpecTilde, SpecAtLeast2}

ResolverEntries ==
    {[name |-> n, spec |-> sp] : n \in {Foo, Bar, Ghost}, sp \in
         {SpecAny, SpecCaret, SpecTilde, SpecAtLeast2}}

\* the `dependencies` mapping: distinct names, in insertion order
ResolverDeclared ==
    {d \in UNION {[1..k -> ResolverEntries] : k \in 0..MaxResolverDeclared} :
        /\ \A i \in 1..Len(d) : d[i].spec \in ResolverSpecs(d[i].name)
        /\ \A i, j \in 1..Len(d) : i # j => d[i].name # d[j].name}

\* what each distribution of the working set may look like; str(specifier)
\* of a requirement is "" or a list of version clauses
FooDists ==
    {ResolvedPackage(Foo, v, r) :
        v \in {V125, V200},
        r \in {<<>>, <<<<Bar, SpecAtLeast2>>, <<Ghost, SpecAny>>>>}}
BarDists ==
    {ResolvedPackage(Bar, v, r) :
        v \in {V125, V200},
        r \in {<<>>, <<<<Baz, SpecAny>>, <<Foo, SpecBelow2>>>>}}
BazDists ==
    {ResolvedPackage(Baz, V125, r) :
        r \in {<<>>, <<<<Foo, SpecAny>>>>, <<<<Baz, SpecAny>>, <<Foo, SpecAny>>>>}}

\* the working set: any of foo, bar, baz, in that order
WorkingSets ==
    {f \o b \o z : f \in {<<>>} \cup {<<d>> : d \in FooDists},
                   b \in {<<>>} \cup {<<d>> : d \in BarDists},
                   z \in {<<>>} \cup {<<d>> : d \in BazDists}}

\* the working set after `pip install` ran for the packages of `conflicts`:
\* each of them at any version, everything else as before
AfterInstalls(graph, conflicts) ==
    LET hit == {conflicts[i].package : i \in 1..Len(conflicts)}
    IN  {g \in [1..Len(graph) -> FooDists \cup BarDists \cup BazDists] :
            \A i \in 1..Len(graph) :
                /\ g[i].name = graph[i].name
                /\ g[i].requires = graph[i].requires
                /\ g[i].name \notin hit => g[i].version = graph[i].version}

\* the orders a set of names can be listed in
Orderings(S) ==
    {q \in [1..Cardinality(S) -> S] : \A i, j \in 1..Cardinality(S) : i # j => q[i] # q[j]}

ResInit ==
    /\ rpc = "start"
    /\ rdeclared \in ResolverDeclared
    /\ rgraph \in WorkingSets
    /\ rpackaging \in BOOLEAN
    /\ rquery = "none" /\ rconflicts = <<>> /\ rremaining = <<>> /\ rrounds = 0
    /\ rpip = <<>> /\ rmessage = <<>> /\ rclosure = {} /\ rclosure2 = {}
    /\ rerror = ""

\* _snapshot raising out of its caller (lines 657-662)
QueryFailed(q) ==
    /\ q # "ok"
    /\ rquery' = q
    /\ rerror' = "query"
    /\ rpc' = "raised"

\* the methods class DependencyResolver defines (dependency.py, lines 590-755)
ResolverMethods == {"__init__", "install_declared", "_snapshot", "resolve_transitive",
                    "detect_conflicts", "propose_resolutions"}

\* python_common.py lines 69-73: DependencyResolver has no install_and_resolve,
\* so the call raises AttributeError before any installer runs and the handler
\* detects conflicts
DetectFirst ==
    /\ rpc = "start"
    /\ "install_and_resolve" \notin ResolverMethods
    /\ \E q \in QueryOutcomes :
          \/ /\ QueryFailed(q)
             /\ UNCHANGED rconflicts
          \/ /\ q = "ok"
             /\ rquery' = q
             /\ rconflicts' = DetectConflicts(rdeclared, rgraph, rpackaging)
             /\ rpc' = IF rconflicts' # <<>> THEN "remediate" ELSE "resolve"
             /\ UNCHANGED rerror
    /\ UNCHANGED <<rdeclared, rgraph, rpackaging, rremaining, rrounds, rpip,
                   rmessage, rclosure, rclosure2>>
    /\ UNCHANGED <<buildVars, checkVars, keyVars, semVars, extVars>>

\* python_common.py lines 74-82: one `pip install` per conflict, failures ignored
Remediate ==
    /\ rpc = "remediate"
    /\ rpip' = [i \in 1..Len(rconflicts) |->
                   rconflicts[i].package \o rconflicts[i].required_spec]
    /\ rgraph' \in AfterInstalls(rgraph, rconflicts)
    /\ rrounds' = rrounds + 1
    /\ rpc' = "recheck"
    /\ UNCHANGED <<rdeclared, rpackaging, rquery, rconflicts, rremaining,
                   rmessage, rclosure, rclosure2, rerror>>
    /\ UNCHANGED <<buildVars, checkVars, keyVars, semVars, extVars>>

\* python_common.py lines 83-91: detect again, raise when conflicts remain
DetectAgain ==
    /\ rpc = "recheck"
    /\ \E q \in QueryOutcomes :
          \/ /\ QueryFailed(q)
             /\ UNCHANGED <<rremaining, rmessage>>
          \/ /\ q = "ok"
             /\ rquery' = q
             /\ rremaining' = DetectConflicts(rdeclared, rgraph, rpackaging)
             /\ IF rremaining' # <<>>
                THEN /\ rmessage' = ConflictLines(rremaining')
                     /\ rerror' = "conflicts"
                     /\ rpc' = "raised"
                ELSE /\ rpc' = "resolve"
                     /\ UNCHANGED <<rmessage, rerror>>
    /\ UNCHANGED <<rdeclared, rgraph, rpackaging, rconflicts, rrounds, rpip,
                   rclosure, rclosure2>>
    /\ UNCHANGED <<buildVars, checkVars, keyVars, semVars, extVars>>

\* a resolve_transitive that reinstalls what it selects
ResolveInstalling ==
    /\ rpc = "resolve"
    /\ \E q \in QueryOutcomes :
          \/ /\ QueryFailed(q)
             /\ UNCHANGED <<rclosure, rpip>>
          \/ /\ q = "ok"
             /\ rquery' = q
             /\ rclosure' = ResolveTransitive(
                                [i \in 1..Len(rdeclared) |-> rdeclared[i].name], rgraph)
             /\ rpip' = rpip \o [i \in 1..Len(rdeclared) |-> rdeclared[i].name]
             /\ rpc' = "resolved"
             /\ UNCHANGED rerror
    /\ UNCHANGED <<rdeclared, rgraph, rpackaging, rconflicts, rremaining, rrounds,
                   rmessage, rclosure2>>
    /\ UNCHANGED <<buildVars, checkVars, keyVars, semVars, extVars>>

\* python_common.py line 92: to_copy = resolver.resolve_transitive(dependencies)
Resolve ==
    /\ rpc = "resolve"
    /\ \E q \in QueryOutcomes :
          \/ /\ QueryFailed(q)
             /\ UNCHANGED rclosure
          \/ /\ q = "ok"
             /\ rquery' = q
             /\ rclosure' = ResolveTransitive(
                                [i \in 1..Len(rdeclared) |-> rdeclared[i].name], rgraph)
             /\ rpc' = "resolved"
             /\ UNCHANGED rerror
    /\ UNCHANGED <<rdeclared, rgraph, rpackaging, rconflicts, rremaining, rrounds,
                   rpip, rmessage, rclosure2>>
    /\ UNCHANGED <<buildVars, checkVars, keyVars, semVars, extVars>>

\* resolve_transitive applied to its own result: the names of rclosure as the
\* keys of a mapping, in any order, each with an empty specifier
ResolveAgain ==
    /\ rpc = "resolved"
    /\ \E q \in QueryOutcomes :
          \/ /\ QueryFailed(q)
             /\ UNCHANGED rclosure2
          \/ /\ q = "ok"
             /\ rquery' = q
             /\ \E names \in Orderings(rclosure) :
                   rclosure2' = ResolveTransitive(names, rgraph)
             /\ rpc' = "done"
             /\ UNCHANGED rerror
    /\ UNCHANGED <<rdeclared, rgraph, rpackaging, rconflicts, rremaining, rrounds,
                   rpip, rmessage, rclosure>>
    /\ UNCHANGED <<buildVars, checkVars, keyVars, semVars, extVars>>

ResolveNext == DetectFirst \/ Remediate \/ DetectAgain \/ Resolve \/ ResolveAgain

(***************************************************************************)
(* The cache store as BuildManager.build would use it.                     *)
(***************************************************************************)
\* the methods class BuildManager defines (build_manager.py, lines 31-732)
BuildManagerMethods ==
    {"__init__", "build", "_ensure_initialized", "_load_config",
     "_validate_and_report", "_select_backend_from_config", "_resolve_output_path",
     "_strict_dependency_check", "_list_installed_in_venv",
     "_list_installed_in_system", "_report_missing_package",
     "_report_version_conflict", "_parse_semver", "_cmp_semver", "_semver_matches",
     "_create_context", "_execute_build", "_build_single_backend",
     "validate_build_config", "_prepare_build_environment", "get_build_info"}

\* callable(getattr(self, name, None)) with self a BuildManager
HasMethod(name) == name \in BuildManagerMethods

\* no .build-cache/<backend>.json file
NoEntry == <<>>

\* ProjectInitializer._should_skip_build
ShouldSkipBuild(store, backend_name, cfg) ==
    /\ store[backend_name] # NoEntry
    /\ store[backend_name] = CacheKey(cfg, backend_name)

\* ProjectInitializer._update_cache
UpdateCache(store, backend_name, cfg) ==
    [store EXCEPT ![backend_name] = CacheKey(cfg, backend_name)]

\* build(), lines 185-186: _skip_fn = getattr(self, "_should_skip_build", None);
\* callable(_skip_fn) and _skip_fn(name, config)
CacheHit(store, backend_name, cfg) ==
    /\ HasMethod("_should_skip_build")
    /\ ShouldSkipBuild(store, backend_name, cfg)

\* _build_single_backend, lines 617-620: the store after a unit that ended ok
StoreAfterUnit(store, backend_name, cfg, ok) ==
    IF ok /\ HasMethod("_update_cache")
    THEN UpdateCache(store, backend_name, cfg)
    ELSE store

(***************************************************************************)
(* BuildManager.build (specification Spec).                                *)
(***************************************************************************)
\* os.cpu_count() of the hosts considered
CpuCounts == {1, 2}

\* the backends the registry holds: the two bundled ones and two registered
\* from build.plugins
Registry == {"python", "rust-python", "ext", "ext2"}

\* backend.get_build_requirements()
BuildRequirements(name) ==
    IF name = "ext" THEN <<"wheel", "cffi">>
    ELSE IF name = "ext2" THEN <<"cffi">>
    ELSE <<>>

\* a [build] table without a `backend` key
NoBackend == ""

\* the [build] table of pypackage.toml: absent, or backend and backends
BuildSections ==
    {[present |-> FALSE, backend |-> NoBackend, backends |-> <<>>],
     [present |-> TRUE, backend |-> "python", backends |-> <<>>],
     [present |-> TRUE, backend |-> NoBackend, backends |-> <<"python", "rust-python">>],
     [present |-> TRUE, backend |-> "python", backends |-> <<"python", "ext">>],
     [present |-> TRUE, backend |-> "ext", backends |-> <<"ext2">>],
     [present |-> TRUE, backend |-> "rust-python", backends |-> <<"ext", "ext">>],
     [present |-> TRUE, backend |-> "ghost", backends |-> <<>>],
     [present |-> TRUE, backend |-> "python", backends |-> <<"ghost">>],
     [present |-> TRUE, backend |-> "ext", backends |-> <<"ghost", "python">>]}

\* the configuration mapping the cache key hashes, and an earlier edition of it
CurrentContent == <<Entry("a", IntValue("1"))>>
EarlierContent == <<Entry("a", IntValue("2"))>>

\* the cache files a project directory may hold when build() is called
CacheStores ==
    {[b \in Registry |-> NoEntry],
     [b \in Registry |-> IF b = "python" THEN CacheKey(CurrentContent, b) ELSE NoEntry],
     [b \in Registry |-> IF b = "python" THEN CacheKey(EarlierContent, b) ELSE NoEntry],
     [b \in Registry |-> CacheKey(CurrentContent, b)]}

\* the declared dependencies and environment views the strict check may meet
BuildDeclared == {<<>>, <<[name |-> NameA, spec |-> SpecCaret]>>}
BuildViews == {[n \in {} |-> V125], [n \in {NameA} |-> V125], [n \in {NameA} |-> V200]}

Min(a, b) == IF a < b THEN a ELSE b
Max(a, b) == IF a > b THEN a ELSE b

\* a plain extend, repeats kept
KeepRepeats(s, acc) == acc \o s

\* `if x not in lst: lst.append(x)` over a sequence: first-seen order
RECURSIVE Dedupe(_, _)
Dedupe(s, acc) ==
    IF Len(s) = 0 THEN acc
    ELSE Dedupe(Tail(s),
                IF \E i \in 1..Len(acc) : acc[i] = Head(s) THEN acc
                ELSE Append(acc, Head(s)))

\* build_config.get("backend", "python"), lines 276 and 642
PrimaryBackend(build) == IF build.backend = NoBackend THEN "python" ELSE build.backend

\* lines 99-109: the primary backend, then build.backends without repeats
SelectBackendNames(build) == Dedupe(<<PrimaryBackend(build)>> \o build.backends, <<>>)

\* every backend's requirements appended as they come, repeats included
RECURSIVE CollectWithRepeats(_, _)
CollectWithRepeats(names, acc) ==
    IF Len(names) = 0 THEN acc
    ELSE CollectWithRepeats(Tail(names), acc \o BuildRequirements(Head(names)))

\* lines 124-136: the requirements of the backends of names, first-seen order
RECURSIVE CollectRequirements(_, _)
CollectRequirements(names, acc) ==
    IF Len(names) = 0 THEN acc
    ELSE CollectRequirements(Tail(names),
                             Dedupe(BuildRequirements(Head(names)), acc))

\* line 182: max(1, min(len(collected_backends), os.cpu_count() or 4))
MaxWorkers(n, cpus) == Max(1, Min(n, cpus))

\* _strict_dependency_check as one call: True iff every declared entry is OK
StrictDependencyCheck(decl, venv, sys) ==
    \A i \in 1..Len(decl) :
        CheckOne(MergeViews(sys, venv), decl[i].name, decl[i].spec) = "OK"

\* build() without its except clause: the exception reaches the caller
OnExceptionReraised == [outcome |-> "none", escaped |-> TRUE]

\* lines 217-219: except Exception: print the trace, return False
OnException == [outcome |-> "False", escaped |-> FALSE]

\* a join that counts only explicit False results as failures
FutureResultLenient(u) == IF u.st = "raised" THEN TRUE ELSE u.ok

\* f.result() of a finished unit, lines 194-200: a raised unit counts as False
FutureResult(u) == IF u.st = "raised" THEN FALSE ELSE u.ok

\* a verdict that is the future yielded last
AllOkLastOnly(res) == res = <<>> \/ res[Len(res)]

\* line 203: all(results) if results else True
AllOk(res) == \A i \in 1..Len(res) : res[i]

Bool(b) == IF b THEN "True" ELSE "False"

NoUnit == [st |-> "none", ok |-> FALSE]

Goto(label) == pc' = label /\ UNCHANGED <<outcome, escaped, excInFlow>>

Return(value) ==
    /\ pc' = "returned"
    /\ outcome' = value
    /\ UNCHANGED <<escaped, excInFlow>>

Raise ==
    /\ pc' = "returned"
    /\ outcome' = OnException.outcome
    /\ escaped' = OnException.escaped
    /\ excInFlow' = TRUE

Log(op, arg, res) == trace' = Append(trace, <<op, arg, res>>)
Log2(e1, e2) == trace' = trace \o <<e1, e2>>
Log3(e1, e2, e3) == trace' = trace \o <<e1, e2, e3>>

BuildUnused ==
    /\ pc = "unused" /\ build_type = "" /\ temp_dir = FALSE /\ config = <<>>
    /\ envExists = FALSE /\ cpu_count = 0 /\ cache = <<>> /\ backend_names = <<>>
    /\ all_requirements = <<>> /\ trace = <<>> /\ next_backend = 0 /\ unit = <<>>
    /\ unitLog = <<>> /\ results = <<>> /\ collected = {} /\ outcome = "none"
    /\ escaped = FALSE /\ excInFlow = FALSE

Init ==
    /\ pc = "idle"
    /\ build_type = "wheel"
    /\ temp_dir = FALSE
    /\ config \in [build : BuildSections, content : {CurrentContent}]
    /\ envExists \in BOOLEAN
    /\ cpu_count \in CpuCounts
    /\ cache \in CacheStores
    /\ backend_names = <<>>
    /\ all_requirements = <<>>
    /\ trace = <<>>
    /\ next_backend = 1
    /\ unit = [b \in Registry |-> NoUnit]
    /\ unitLog = [b \in Registry |-> <<>>]
    /\ results = <<>>
    /\ collected = {}
    /\ outcome = "none"
    /\ escaped = FALSE
    /\ excInFlow = FALSE
    /\ CheckUnused
    /\ KeyUnused
    /\ SemUnused
    /\ ResUnused
    /\ ExtUnused

\* what a call leaves alone until the backend phase
unitVars == <<next_backend, unit, unitLog, results, collected>>
inputVars == <<build_type, temp_dir, config, cpu_count>>

\* build() is called: lines 65-84
BuildStart ==
    /\ pc \in {"idle", "returned"}
    /\ build_type' \in {"wheel", "sdist", "both"}
    /\ temp_dir' \in BOOLEAN
    /\ pc' = "ensure_initialized"
    /\ backend_names' = <<>>
    /\ all_requirements' = <<>>
    /\ trace' = <<>>
    /\ next_backend' = 1
    /\ unit' = [b \in Registry |-> NoUnit]
    /\ unitLog' = [b \in Registry |-> <<>>]
    /\ results' = <<>>
    /\ collected' = {}
    /\ outcome' = "none"
    /\ escaped' = FALSE
    /\ excInFlow' = FALSE
    /\ UNCHANGED <<config, envExists, cpu_count, cache>>
    /\ UNCHANGED <<checkVars, keyVars, semVars, resVars, extVars>>

\* lines 86-87, _ensure_initialized
EnsureInitialized ==
    /\ pc = "ensure_initialized"
    /\ \E exists \in BOOLEAN :
         /\ Log("config.exists", "", Bool(exists))
         /\ IF exists THEN Goto("load") ELSE Return("False")
    /\ UNCHANGED <<inputVars, envExists, cache, backend_names, all_requirements, unitVars>>
    /\ UNCHANGED <<checkVars, keyVars, semVars, resVars, extVars>>

\* line 89, _load_config: config_manager.load() raises on an unparsable file
LoadConfig ==
    /\ pc = "load"
    /\ \E parsed \in BOOLEAN :
         /\ Log("config.load", "", IF parsed THEN "ok" ELSE "raise")
         /\ IF parsed THEN Goto("validate") ELSE Raise
    /\ UNCHANGED <<inputVars, envExists, cache, backend_names, all_requirements, unitVars>>
    /\ UNCHANGED <<checkVars, keyVars, semVars, resVars, extVars>>

\* validate_build_config, lines 623-651: the basic validation, then, with a
\* non-empty [build] table, the primary backend's lookup and its own validation
ValidateBuildConfig(build, basic, backendv) ==
    IF basic = "raise" THEN "raise"
    ELSE IF build.present /\ PrimaryBackend(build) \in Registry /\ backendv = "raise"
         THEN "raise"
    ELSE IF \/ basic = "errors"
            \/ build.present /\ PrimaryBackend(build) \notin Registry
            \/ build.present /\ backendv = "errors"
         THEN "errors"
    ELSE "ok"

\* lines 90-91, _validate_and_report
ValidateConfig ==
    /\ pc = "validate"
    /\ \E basic \in {"ok", "errors", "raise"}, backendv \in {"ok", "errors", "raise"} :
         LET r == ValidateBuildConfig(config.build, basic, backendv)
         IN  /\ Log("validate", "", r)
             /\ IF r = "ok" THEN Goto("context")
                ELSE IF r = "errors" THEN Return("False")
                ELSE Raise
    /\ UNCHANGED <<inputVars, envExists, cache, backend_names, all_requirements, unitVars>>
    /\ UNCHANGED <<checkVars, keyVars, semVars, resVars, extVars>>

\* lines 93-94, _resolve_output_path and _create_context: preparing a given
\* temp_dir may fail, which raises RuntimeError
CreateContext ==
    /\ pc = "context"
    /\ \E made \in BOOLEAN :
         IF temp_dir /\ ~made
         THEN Log("create_context", "", "raise") /\ Raise
         ELSE Log("create_context", "", "ok") /\ Goto("select")
    /\ UNCHANGED <<inputVars, envExists, cache, backend_names, all_requirements, unitVars>>
    /\ UNCHANGED <<checkVars, keyVars, semVars, resVars, extVars>>

\* lines 99-109: the selected backend names
SelectBackends ==
    /\ pc = "select"
    /\ backend_names' = SelectBackendNames(config.build)
    /\ Goto("env")
    /\ UNCHANGED <<inputVars, envExists, cache, all_requirements, trace, unitVars>>
    /\ UNCHANGED <<checkVars, keyVars, semVars, resVars, extVars>>

\* lines 113-121: create the environment when it does not exist
PrepareEnv ==
    /\ pc = "env"
    /\ IF envExists
       THEN /\ Log("env.exists", "", "True")
            /\ Goto("collect")
            /\ UNCHANGED envExists
       ELSE \E hook \in BOOLEAN, created \in BOOLEAN :
              IF ~hook
              THEN /\ Log2(<<"env.exists", "", "False">>, <<"before", "venv", "False">>)
                   /\ Return("False")
                   /\ UNCHANGED envExists
              ELSE IF ~created
              THEN /\ Log3(<<"env.exists", "", "False">>, <<"before", "venv", "True">>,
                           <<"env.create", "", "False">>)
                   /\ Return("False")
                   /\ UNCHANGED envExists
              ELSE /\ trace' = trace \o << <<"env.exists", "", "False">>,
                                           <<"before", "venv", "True">>,
                                           <<"env.create", "", "True">>,
                                           <<"after", "venv", "">> >>
                   /\ envExists' = TRUE
                   /\ Goto("collect")
    /\ UNCHANGED <<inputVars, cache, backend_names, all_requirements, unitVars>>
    /\ UNCHANGED <<checkVars, keyVars, semVars, resVars, extVars>>

\* lines 124-136: look every selected backend up and union the requirements;
\* the loop asks each backend found for its requirements before it looks the
\* next name up, so an earlier backend may raise before a missing one is met
CollectBackends ==
    /\ pc = "collect"
    /\ IF \E i \in 1..Len(backend_names) : backend_names[i] \notin Registry
       THEN LET i == CHOOSE j \in 1..Len(backend_names) :
                        /\ backend_names[j] \notin Registry
                        /\ \A h \in 1..(j - 1) : backend_names[h] \in Registry
            IN  \E answered \in BOOLEAN :
                  /\ IF i > 1 /\ ~answered
                     THEN Log("get_build_requirements", "", "raise") /\ Raise
                     ELSE Log("get_backend", backend_names[i], "None") /\ Return("False")
                  /\ UNCHANGED all_requirements
       ELSE \E answered \in BOOLEAN :
              IF answered
              THEN /\ all_requirements' = CollectRequirements(backend_names, <<>>)
                   /\ Log("get_build_requirements", "", "ok")
                   /\ Goto("build_deps")
              ELSE /\ Log("get_build_requirements", "", "raise")
                   /\ Raise
                   /\ UNCHANGED all_requirements
    /\ UNCHANGED <<inputVars, envExists, cache, backend_names, unitVars>>
    /\ UNCHANGED <<checkVars, keyVars, semVars, resVars, extVars>>

\* the installer calls of `for req in all_requirements`: the first n succeed,
\* and when n is not all of them the next one ends as `bad`
InstallCalls(reqs, n, bad) ==
    [i \in 1..Min(n + 1, Len(reqs)) |->
        <<"install", reqs[i], IF i <= n THEN "ok" ELSE bad>>]

\* lines 137-147: the deps_install hook and the build requirements' installs
InstallBuildDeps ==
    /\ pc = "build_deps"
    /\ IF Len(all_requirements) = 0
       THEN Goto("project_deps") /\ UNCHANGED trace
       ELSE \E hook \in BOOLEAN, n \in 0..Len(all_requirements), bad \in {"fail", "raise"} :
              IF ~hook
              THEN /\ Log("before", "deps_install:build", "False")
                   /\ Return("False")
              ELSE IF n < Len(all_requirements)
              THEN /\ trace' = trace \o << <<"before", "deps_install:build", "True">> >>
                                     \o InstallCalls(all_requirements, n, bad)
                   /\ IF bad = "fail" THEN Return("False") ELSE Raise
              ELSE /\ trace' = trace \o << <<"before", "deps_install:build", "True">> >>
                                     \o InstallCalls(all_requirements, n, bad)
                                     \o << <<"after", "deps_install:build", "">> >>
                   /\ Goto("project_deps")
    /\ UNCHANGED <<inputVars, envExists, cache, backend_names, all_requirements, unitVars>>
    /\ UNCHANGED <<checkVars, keyVars, semVars, resVars, extVars>>

\* the project install with the hook's answer logged but not obeyed
InstallProjectDepsUnhooked ==
    /\ pc = "project_deps"
    /\ \E hook \in BOOLEAN :
         /\ Log3(<<"before", "deps_install:project", Bool(hook)>>,
                 <<"install", "project", "ok">>,
                 <<"after", "deps_install:project", "">>)
         /\ Goto("strict_check")
    /\ UNCHANGED <<inputVars, envExists, cache, backend_names, all_requirements, unitVars>>
    /\ UNCHANGED <<checkVars, keyVars, semVars, resVars, extVars>>

\* lines 150-158: the deps_install hook and the project dependencies' install
InstallProjectDeps ==
    /\ pc = "project_deps"
    /\ \E hook \in BOOLEAN, res \in {"ok", "fail", "raise"} :
         IF ~hook
         THEN /\ Log("before", "deps_install:project", "False")
              /\ Return("False")
         ELSE IF res = "ok"
         THEN /\ Log3(<<"before", "deps_install:project", "True">>,
                      <<"install", "project", "ok">>,
                      <<"after", "deps_install:project", "">>)
              /\ Goto("strict_check")
         ELSE /\ Log2(<<"before", "deps_install:project", "True">>,
                      <<"install", "project", res>>)
              /\ IF res = "fail" THEN Return("False") ELSE Raise
    /\ UNCHANGED <<inputVars, envExists, cache, backend_names, all_requirements, unitVars>>
    /\ UNCHANGED <<checkVars, keyVars, semVars, resVars, extVars>>

\* the strict check as an advisory step: its verdict is logged, never obeyed
StrictCheckAdvisory ==
    /\ pc = "strict_check"
    /\ \E decl \in BuildDeclared, venv \in BuildViews, sys \in BuildViews :
         /\ Log("strict_check", "", Bool(StrictDependencyCheck(decl, venv, sys)))
         /\ Goto("pre_build")
    /\ UNCHANGED <<inputVars, envExists, cache, backend_names, all_requirements, unitVars>>
    /\ UNCHANGED <<checkVars, keyVars, semVars, resVars, extVars>>

\* lines 161-166: the strict dependency check, which catches its own errors
StrictCheck ==
    /\ pc = "strict_check"
    /\ \E decl \in BuildDeclared, venv \in BuildViews, sys \in BuildViews,
          failed \in BOOLEAN :
         LET ok == IF failed THEN CheckOnException.result = "True"
                   ELSE StrictDependencyCheck(decl, venv, sys)
         IN  /\ Log("strict_check", "", Bool(ok))
             /\ IF ok THEN Goto("pre_build") ELSE Return("False")
    /\ UNCHANGED <<inputVars, envExists, cache, backend_names, all_requirements, unitVars>>
    /\ UNCHANGED <<checkVars, keyVars, semVars, resVars, extVars>>

\* lines 169-177: the pre-build hook
PreBuildHook ==
    /\ pc = "pre_build"
    /\ \E hook \in BOOLEAN :
         /\ Log("before", "build", Bool(hook))
         /\ IF hook THEN Goto("dispatch") ELSE Return("False")
    /\ UNCHANGED <<inputVars, envExists, cache, backend_names, all_requirements, unitVars>>
    /\ UNCHANGED <<checkVars, keyVars, semVars, resVars, extVars>>

\* the units a pool worker is executing
Running == {b \in Registry : unit[b].st \in {"prepare", "before_build", "build"}}

\* the units handed to executor.submit
Submitted == {b \in Registry : unit[b].st \notin {"none", "cache_hit"}}

\* the units whose future is finished
Finished == {b \in Registry : unit[b].st \in {"done", "raised"}}

Position(b) == CHOOSE i \in 1..Len(backend_names) : backend_names[i] = b

UnitLogged(b, op, res) == unitLog' = [unitLog EXCEPT ![b] = Append(@, <<op, res>>)]

\* lines 184-191: one iteration of the dispatch loop: a cache hit appends True,
\* otherwise the backend's unit is submitted to the pool
Dispatch ==
    /\ pc = "dispatch"
    /\ next_backend <= Len(backend_names)
    /\ LET name == backend_names[next_backend]
       IN  IF CacheHit(cache, name, config.content)
           THEN /\ results' = Append(results, TRUE)
                /\ unit' = [unit EXCEPT ![name] = [st |-> "cache_hit", ok |-> TRUE]]
           ELSE /\ unit' = [unit EXCEPT ![name] = [st |-> "queued", ok |-> FALSE]]
                /\ UNCHANGED results
    /\ next_backend' = next_backend + 1
    /\ pc' = IF next_backend = Len(backend_names) THEN "join" ELSE "dispatch"
    /\ UNCHANGED <<inputVars, envExists, cache, backend_names, all_requirements,
                   trace, unitLog, collected, outcome, escaped, excInFlow>>
    /\ UNCHANGED <<checkVars, keyVars, semVars, resVars, extVars>>

\* _build_single_backend, lines 571-587: a free worker takes the oldest queued
\* unit, creates its context and runs the backend_prepare pre-hook
UnitBegin(b) ==
    /\ unit[b].st = "queued"
    /\ Cardinality(Running) < MaxWorkers(Len(backend_names), cpu_count)
    /\ \A o \in Registry : unit[o].st = "queued" => Position(b) <= Position(o)
    /\ \E made \in BOOLEAN, hook \in BOOLEAN :
         IF temp_dir /\ ~made
         THEN /\ unit' = [unit EXCEPT ![b] = [st |-> "raised", ok |-> FALSE]]
              /\ UnitLogged(b, "create_context", "raise")
         ELSE /\ unit' = [unit EXCEPT ![b] =
                            IF hook THEN [st |-> "prepare", ok |-> FALSE]
                            ELSE [st |-> "done", ok |-> FALSE]]
              /\ UnitLogged(b, "before:backend_prepare", Bool(hook))
    /\ UNCHANGED <<pc, inputVars, envExists, cache, backend_names, all_requirements,
                   trace, next_backend, results, collected, outcome, escaped, excInFlow>>
    /\ UNCHANGED <<checkVars, keyVars, semVars, resVars, extVars>>

\* a unit that goes on to the build whatever prepare_build returned
UnitPrepareUnchecked(b) ==
    /\ unit[b].st = "prepare"
    /\ \E r \in {"True", "False", "raise"} :
         /\ unit' = [unit EXCEPT ![b] =
                       IF r = "raise" THEN [st |-> "raised", ok |-> FALSE]
                       ELSE [st |-> "before_build", ok |-> FALSE]]
         /\ unitLog' = [unitLog EXCEPT ![b] =
                          IF r = "raise" THEN Append(@, <<"prepare_build", r>>)
                          ELSE @ \o << <<"prepare_build", r>>, <<"after:backend_prepare", "">> >>]
    /\ UNCHANGED <<pc, inputVars, envExists, cache, backend_names, all_requirements,
                   trace, next_backend, results, collected, outcome, escaped, excInFlow>>
    /\ UNCHANGED <<checkVars, keyVars, semVars, resVars, extVars>>

\* lines 588-591: backend.prepare_build, then the backend_prepare post-hook
UnitPrepare(b) ==
    /\ unit[b].st = "prepare"
    /\ \E r \in {"True", "False", "raise"} :
         /\ unit' = [unit EXCEPT ![b] =
                       IF r = "True" THEN [st |-> "before_build", ok |-> FALSE]
                       ELSE IF r = "False" THEN [st |-> "done", ok |-> FALSE]
                       ELSE [st |-> "raised", ok |-> FALSE]]
         /\ unitLog' = [unitLog EXCEPT ![b] =
                          IF r = "True"
                          THEN @ \o << <<"prepare_build", r>>, <<"after:backend_prepare", "">> >>
                          ELSE Append(@, <<"prepare_build", r>>)]
    /\ UNCHANGED <<pc, inputVars, envExists, cache, backend_names, all_requirements,
                   trace, next_backend, results, collected, outcome, escaped, excInFlow>>
    /\ UNCHANGED <<checkVars, keyVars, semVars, resVars, extVars>>

\* lines 602-604: the backend_build pre-hook
UnitBeforeBuild(b) ==
    /\ unit[b].st = "before_build"
    /\ \E hook \in BOOLEAN :
         /\ unit' = [unit EXCEPT ![b] =
                       IF hook THEN [st |-> "build", ok |-> FALSE]
                       ELSE [st |-> "done", ok |-> FALSE]]
         /\ UnitLogged(b, "before:backend_build", Bool(hook))
    /\ UNCHANGED <<pc, inputVars, envExists, cache, backend_names, all_requirements,
                   trace, next_backend, results, collected, outcome, escaped, excInFlow>>
    /\ UNCHANGED <<checkVars, keyVars, semVars, resVars, extVars>>

\* an _execute_build that turns an exception of backend.build into a failure
ExecuteBuildSwallowing(type, r) ==
    IF type \in {"wheel", "both"}
    THEN [called |-> TRUE, raised |-> FALSE, ok |-> r = "artifact"]
    ELSE [called |-> FALSE, raised |-> FALSE, ok |-> FALSE]

\* an _execute_build that calls backend.build for every build type
ExecuteBuildAnyType(type, r) ==
    [called |-> TRUE, raised |-> r = "raise", ok |-> r = "artifact"]

\* _execute_build, lines 541-553: backend.build runs for "wheel" and "both"
\* only; r is what it does there (an artifact path, None, or an exception)
ExecuteBuild(type, r) ==
    IF type \in {"wheel", "both"}
    THEN [called |-> TRUE, raised |-> r = "raise", ok |-> r = "artifact"]
    ELSE [called |-> FALSE, raised |-> FALSE, ok |-> FALSE]

\* lines 605-621: _execute_build, the backend_build post-hook, the cache update
UnitBuild(b) ==
    /\ unit[b].st = "build"
    /\ \E r \in {"artifact", "none", "raise"} :
         LET x == ExecuteBuild(build_type, r)
         IN  IF x.raised
             THEN /\ unit' = [unit EXCEPT ![b] = [st |-> "raised", ok |-> FALSE]]
                  /\ UnitLogged(b, "build", "raise")
                  /\ UNCHANGED cache
             ELSE /\ unit' = [unit EXCEPT ![b] = [st |-> "done", ok |-> x.ok]]
                  /\ unitLog' = [unitLog EXCEPT ![b] =
                        @ \o (IF x.called THEN << <<"build", r>> >> ELSE <<>>)
                          \o << <<"after:backend_build", Bool(x.ok)>> >>]
                  /\ cache' = StoreAfterUnit(cache, b, config.content, x.ok)
    /\ UNCHANGED <<pc, inputVars, envExists, backend_names, all_requirements,
                   trace, next_backend, results, collected, outcome, escaped, excInFlow>>
    /\ UNCHANGED <<checkVars, keyVars, semVars, resVars, extVars>>

\* lines 193-200: as_completed yields a finished future; its result is appended
Collect(b) ==
    /\ pc = "join"
    /\ b \in Finished
    /\ b \notin collected
    /\ results' = Append(results, FutureResult(unit[b]))
    /\ collected' = collected \cup {b}
    /\ UNCHANGED <<pc, inputVars, envExists, cache, backend_names, all_requirements,
                   trace, next_backend, unit, unitLog, outcome, escaped, excInFlow>>
    /\ UNCHANGED <<checkVars, keyVars, semVars, resVars, extVars>>

\* lines 202-216: every future was yielded; the post-build hook; return all_ok
Finish ==
    /\ pc = "join"
    /\ collected = Submitted
    /\ Log("after", "build", Bool(AllOk(results)))
    /\ Return(Bool(AllOk(results)))
    /\ UNCHANGED <<inputVars, envExists, cache, backend_names, all_requirements, unitVars>>
    /\ UNCHANGED <<checkVars, keyVars, semVars, resVars, extVars>>

Next ==
    \/ BuildStart
    \/ EnsureInitialized
    \/ LoadConfig
    \/ ValidateConfig
    \/ CreateContext
    \/ SelectBackends
    \/ PrepareEnv
    \/ CollectBackends
    \/ InstallBuildDeps
    \/ InstallProjectDeps
    \/ StrictCheck
    \/ PreBuildHook
    \/ Dispatch
    \/ \E b \in Registry : UnitBegin(b)
    \/ \E b \in Registry : UnitPrepare(b)
    \/ \E b \in Registry : UnitBeforeBuild(b)
    \/ \E b \in Registry : UnitBuild(b)
    \/ \E b \in Registry : Collect(b)
    \/ Finish

Spec == Init /\ [][Next]_vars

(***************************************************************************)
(* The strict check and the cache key on their own.                        *)
(***************************************************************************)
CheckInit ==
    /\ cpc = "start"
    /\ declared \in DeclaredMappings
    /\ venv_pkgs \in VenvViews
    /\ sys_pkgs \in SysViews
    /\ merged = <<>>
    /\ idx = 0
    /\ all_ok = TRUE
    /\ reports = <<>>
    /\ queried = {}
    /\ checkResult = "none"
    /\ checkRaised = FALSE
    /\ BuildUnused
    /\ KeyUnused
    /\ SemUnused
    /\ ResUnused
    /\ ExtUnused

CheckNext == CheckStart \/ CheckStep \/ CheckReturn

SpecCheck == CheckInit /\ [][CheckNext]_vars

SpecKeyInit ==
    KeyInit /\ BuildUnused /\ CheckUnused /\ SemUnused /\ ResUnused /\ ExtUnused

SpecKey == SpecKeyInit /\ [][ComputeKeys]_vars

SpecSemverInit ==
    SemInit /\ BuildUnused /\ CheckUnused /\ KeyUnused /\ ResUnused /\ ExtUnused

SpecSemver == SpecSemverInit /\ [][SemverEval]_vars

SpecResolveInit ==
    ResInit /\ BuildUnused /\ CheckUnused /\ KeyUnused /\ SemUnused /\ ExtUnused

SpecResolve == SpecResolveInit /\ [][ResolveNext]_vars

(***************************************************************************)
(* PluginManager.before and PluginManager.after (SpecPlugins).             *)
(***************************************************************************)
MaxPlugins == 3

\* what a plugin's before hook does: return a truthy or a falsy value, or raise
BeforeAnswers == {"True", "False", "None", "raise"}
\* what a plugin's after hook does
AfterAnswers == {"ok", "raise"}

\* self._plugins after load(): the loaded plugins, in load order
LoadedPlugins ==
    UNION {[1..n -> [before : BeforeAnswers, after : AfterAnswers]] : n \in 0..MaxPlugins}

\* the local `ok` that only the last plugin's answer decides
OkAfterLastOnly(ok, answer) == answer = "True"

\* lines 170-174: `if not p.before(...): ok = False`, `except Exception: ok = False`
OkAfter(ok, answer) == ok /\ answer = "True"

PlugInit ==
    /\ hpc = "before"
    /\ hplugins \in LoadedPlugins
    /\ hidx = 1 /\ hok = TRUE /\ hcalls = <<>>
    /\ hresult = "none" /\ hescaped = FALSE

\* lines 169-174: one iteration of before()'s loop
BeforeStep ==
    /\ hpc = "before"
    /\ hidx <= Len(hplugins)
    /\ hcalls' = Append(hcalls, <<"before", hidx>>)
    /\ hok' = OkAfter(hok, hplugins[hidx].before)
    /\ hidx' = hidx + 1
    /\ UNCHANGED <<hpc, hplugins, hresult, hescaped>>
    /\ UNCHANGED <<buildVars, checkVars, keyVars, semVars, resVars, busVars, unitsVars,
                   ctxVars>>

\* line 175: return ok; the caller then runs after()
BeforeReturn ==
    /\ hpc = "before"
    /\ hidx > Len(hplugins)
    /\ hresult' = IF hok THEN "True" ELSE "False"
    /\ hpc' = "after"
    /\ hidx' = 1
    /\ UNCHANGED <<hplugins, hok, hcalls, hescaped>>
    /\ UNCHANGED <<buildVars, checkVars, keyVars, semVars, resVars, busVars, unitsVars,
                   ctxVars>>

\* lines 179-183: one iteration of after()'s loop, the plugin's exception dropped
AfterStep ==
    /\ hpc = "after"
    /\ hidx <= Len(hplugins)
    /\ hcalls' = Append(hcalls, <<"after", hidx>>)
    /\ hidx' = hidx + 1
    /\ UNCHANGED <<hpc, hplugins, hok, hresult, hescaped>>
    /\ UNCHANGED <<buildVars, checkVars, keyVars, semVars, resVars, busVars, unitsVars,
                   ctxVars>>

\* after() returning None
AfterReturn ==
    /\ hpc = "after"
    /\ hidx > Len(hplugins)
    /\ hpc' = "done"
    /\ UNCHANGED <<hplugins, hidx, hok, hcalls, hresult, hescaped>>
    /\ UNCHANGED <<buildVars, checkVars, keyVars, semVars, resVars, busVars, unitsVars,
                   ctxVars>>

PlugNext == BeforeStep \/ BeforeReturn \/ AfterStep \/ AfterReturn

SpecPluginsInit ==
    /\ PlugInit /\ BusUnused /\ UnitsUnused /\ CtxUnused
    /\ BuildUnused /\ CheckUnused /\ KeyUnused /\ SemUnused /\ ResUnused

SpecPlugins == SpecPluginsInit /\ [][PlugNext]_vars

(***************************************************************************)
(* EventBus: one publish in flight, another thread subscribing and         *)
(* unsubscribing (SpecBus).                                                *)
(***************************************************************************)
MaxSubscribed == 2
MaxOps == 2

\* the event being published, and one that is not
Ev == "build:start"
OtherEv == "build:error"
EventNames == {Ev, OtherEv}

(* The handlers: callables that return, raise, or call back into the bus.  *)
Handlers == {"h_ok", "h_raise", "h_sub", "h_unsub"}

\* what calling a handler does
HandlerAct(h) ==
    IF h = "h_raise" THEN [kind |-> "raise", target |-> ""]
    ELSE IF h = "h_sub" THEN [kind |-> "subscribe", target |-> "h_ok"]
    ELSE IF h = "h_unsub" THEN [kind |-> "unsubscribe", target |-> "h_raise"]
    ELSE [kind |-> "return", target |-> ""]

\* self._subscribers.get(event, []): an event without handlers has no key
SubscriberMaps ==
    {[e \in EventNames |-> IF e = Ev THEN q ELSE <<"h_ok">>] :
        q \in UNION {[1..n -> Handlers] : n \in 0..MaxSubscribed}}

\* lines 36-37: setdefault(event, []).append(handler)
Subscribed(subs, event, handler) ==
    [subs EXCEPT ![event] = Append(@, handler)]

\* lines 52-56: every occurrence of the handler is dropped
Unsubscribed(subs, event, handler) ==
    [subs EXCEPT ![event] = SelectSeq(@, LAMBDA h : h # handler)]

\* a delivery loop that reads the live list
DeliveryListLive(snapshot, live) == live

\* line 73: `for h in handlers`, the copy taken under the lock
DeliveryList(snapshot, live) == snapshot

BusInit ==
    /\ esubs \in SubscriberMaps
    /\ elock = "none"
    /\ epc = [t \in {"pub", "other"} |-> "idle"]
    /\ esnap = <<>> /\ eidx = 0 /\ edelivered = <<>>
    /\ eops = MaxOps
    /\ eescaped = FALSE

BusOthers == <<buildVars, checkVars, keyVars, semVars, resVars, plugVars, unitsVars,
               ctxVars>>

\* line 71: publish() enters `with self._lock`
PublishAcquire ==
    /\ epc["pub"] = "idle"
    /\ elock = "none"
    /\ elock' = "pub"
    /\ epc' = [epc EXCEPT !["pub"] = "locked"]
    /\ UNCHANGED <<esubs, esnap, eidx, edelivered, eops, eescaped, BusOthers>>

\* line 72: handlers = list(self._subscribers.get(event, [])), lock released
PublishSnapshot ==
    /\ epc["pub"] = "locked"
    /\ esnap' = esubs[Ev]
    /\ eidx' = 1
    /\ elock' = "none"
    /\ epc' = [epc EXCEPT !["pub"] = "deliver"]
    /\ UNCHANGED <<esubs, edelivered, eops, eescaped, BusOthers>>

\* lines 73-78: one handler called; its exception is dropped; a handler that
\* subscribes or unsubscribes takes the lock for the time of that call
Deliver ==
    /\ epc["pub"] = "deliver"
    /\ eidx <= Len(DeliveryList(esnap, esubs[Ev]))
    /\ LET h == DeliveryList(esnap, esubs[Ev])[eidx]
           act == HandlerAct(h)
       IN  /\ act.kind \in {"subscribe", "unsubscribe"} => elock = "none"
           /\ edelivered' = Append(edelivered, h)
           /\ esubs' = IF act.kind = "subscribe" THEN Subscribed(esubs, Ev, act.target)
                       ELSE IF act.kind = "unsubscribe"
                            THEN Unsubscribed(esubs, Ev, act.target)
                       ELSE esubs
    /\ eidx' = eidx + 1
    /\ UNCHANGED <<elock, epc, esnap, eops, eescaped, BusOthers>>

\* the loop is over: publish() returns None
PublishReturn ==
    /\ epc["pub"] = "deliver"
    /\ eidx > Len(DeliveryList(esnap, esubs[Ev]))
    /\ epc' = [epc EXCEPT !["pub"] = "done"]
    /\ UNCHANGED <<esubs, elock, esnap, eidx, edelivered, eops, eescaped, BusOthers>>

\* lines 36 and 52: another thread enters `with self._lock`
OtherAcquire ==
    /\ epc["other"] = "idle"
    /\ eops > 0
    /\ elock = "none"
    /\ elock' = "other"
    /\ epc' = [epc EXCEPT !["other"] = "locked"]
    /\ UNCHANGED <<esubs, esnap, eidx, edelivered, eops, eescaped, BusOthers>>

\* lines 37 and 53-56: the subscribe or unsubscribe under the lock, then release
OtherMutate ==
    /\ epc["other"] = "locked"
    /\ \E h \in Handlers, e \in EventNames, add \in BOOLEAN :
          esubs' = IF add THEN Subscribed(esubs, e, h) ELSE Unsubscribed(esubs, e, h)
    /\ elock' = "none"
    /\ eops' = eops - 1
    /\ epc' = [epc EXCEPT !["other"] = "idle"]
    /\ UNCHANGED <<esnap, eidx, edelivered, eescaped, BusOthers>>

BusNext ==
    \/ PublishAcquire \/ PublishSnapshot \/ Deliver \/ PublishReturn
    \/ OtherAcquire \/ OtherMutate

SpecBusInit ==
    /\ BusInit /\ PlugUnused /\ UnitsUnused /\ CtxUnused
    /\ BuildUnused /\ CheckUnused /\ KeyUnused /\ SemUnused /\ ResUnused

SpecBus == SpecBusInit /\ [][BusNext]_vars

(***************************************************************************)
(* backend.build of the units of the concurrent phase, from the point the  *)
(* pre-phase has passed (SpecUnits).                                       *)
(***************************************************************************)
\* the built-in backends; both end their build in ensure_and_copy_dependencies
Units == {"python", "rust-python"}

\* `pip list` of the environment that holds the working set
GraphView(graph) ==
    [n \in {graph[i].name : i \in 1..Len(graph)} |-> GraphGet(graph, n).version]

NothingInstalled == [n \in {} |-> <<>>]

\* the pre-phase is over: the environment exists and the strict check passed
UnitsInit ==
    /\ upc = [b \in Units |-> "start"]
    /\ uenv = TRUE
    /\ udeclared \in ResolverDeclared
    /\ ugraph \in WorkingSets
    /\ StrictDependencyCheck(udeclared, GraphView(ugraph), NothingInstalled)
    /\ uconflicts = [b \in Units |-> <<>>]
    /\ uidx = [b \in Units |-> 0]
    /\ ulog = <<>>
    /\ uinflight = {}

UnitsOthers == <<buildVars, checkVars, keyVars, semVars, resVars, plugVars, busVars,
                 ctxVars>>

\* python_backend.py lines 100-103, rust_python_backend.py lines 205-208:
\* nothing more to do without declared dependencies; otherwise ensure_ready(),
\* which creates the environment when it does not exist
UnitEnsureReady(b) ==
    /\ upc[b] = "start"
    /\ IF udeclared = <<>>
       THEN /\ upc' = [upc EXCEPT ![b] = "done"]
            /\ UNCHANGED <<uenv, ulog>>
       ELSE /\ upc' = [upc EXCEPT ![b] = "detect"]
            /\ uenv' = TRUE
            /\ ulog' = IF uenv THEN ulog ELSE Append(ulog, <<b, <<"create">>>>)
    /\ UNCHANGED <<ugraph, udeclared, uconflicts, uidx, uinflight, UnitsOthers>>

\* python_common.py lines 69-74: install_and_resolve is missing, the handler
\* detects conflicts; a failing query raises out of backend.build's try
UnitDetect(b) ==
    /\ upc[b] = "detect"
    /\ \E q \in QueryOutcomes :
          IF q # "ok"
          THEN /\ upc' = [upc EXCEPT ![b] = "failed"]
               /\ UNCHANGED <<uconflicts, uidx>>
          ELSE LET found == DetectConflicts(udeclared, ugraph, TRUE)
               IN  /\ uconflicts' = [uconflicts EXCEPT ![b] = found]
                   /\ uidx' = [uidx EXCEPT ![b] = 1]
                   /\ upc' = [upc EXCEPT ![b] =
                                 IF found # <<>> THEN "remediate" ELSE "done"]
    /\ UNCHANGED <<uenv, ugraph, udeclared, ulog, uinflight, UnitsOthers>>

\* python_common.py line 78: env_manager.run_pip(["install", ...]) is started
UnitPipBegin(b) ==
    /\ upc[b] = "remediate"
    /\ LET c == uconflicts[b][uidx[b]]
       IN  ulog' = Append(ulog, <<b, <<"install">> \o c.package \o c.required_spec>>)
    /\ uinflight' = uinflight \cup {b}
    /\ upc' = [upc EXCEPT ![b] = "pip"]
    /\ UNCHANGED <<uenv, ugraph, udeclared, uconflicts, uidx, UnitsOthers>>

\* python_common.py lines 78-82: the pip process ends, whatever its exit code;
\* the loop goes to the next conflict
UnitPipEnd(b) ==
    /\ upc[b] = "pip"
    /\ ugraph' \in AfterInstalls(ugraph, <<uconflicts[b][uidx[b]]>>)
    /\ uinflight' = uinflight \ {b}
    /\ uidx' = [uidx EXCEPT ![b] = @ + 1]
    /\ upc' = [upc EXCEPT ![b] =
                  IF uidx[b] < Len(uconflicts[b]) THEN "remediate" ELSE "recheck"]
    /\ UNCHANGED <<uenv, udeclared, uconflicts, ulog, UnitsOthers>>

\* python_common.py lines 84-92: the second detection decides the unit
UnitRecheck(b) ==
    /\ upc[b] = "recheck"
    /\ \E q \in QueryOutcomes :
          upc' = [upc EXCEPT ![b] =
                     IF q = "ok" /\ DetectConflicts(udeclared, ugraph, TRUE) = <<>>
                     THEN "done" ELSE "failed"]
    /\ UNCHANGED <<uenv, ugraph, udeclared, uconflicts, uidx, ulog, uinflight,
                   UnitsOthers>>

UnitsNext ==
    \E b \in Units :
        \/ UnitEnsureReady(b) \/ UnitDetect(b) \/ UnitPipBegin(b)
        \/ UnitPipEnd(b) \/ UnitRecheck(b)

SpecUnitsInit ==
    /\ UnitsInit /\ PlugUnused /\ BusUnused /\ CtxUnused
    /\ BuildUnused /\ CheckUnused /\ KeyUnused /\ SemUnused /\ ResUnused

SpecUnits == SpecUnitsInit /\ [][UnitsNext]_vars

(***************************************************************************)
(* The BuildContext of each backend unit (specification SpecContext).      *)
(* Objects are kept by identity in xheap; a unit holds the identity of the *)
(* context _create_context returned to it.  An entry of build_info is      *)
(* (key, the backend that stored it); a directory is a name.               *)
(***************************************************************************)
\* the bundled backends and one registered from build.plugins
ContextUnits == {"python", "rust-python", "ext"}

NoDir == <<"None">>
GivenDir == <<"given">>

\* tempfile.mkdtemp(prefix="pypackage_build_"): a directory that did not exist
Mkdtemp(n) == <<"pypackage_build_", n>>

\* a constructor that hands out the first object again
NewObjectReused(heap) == 1

\* the identity of the object a constructor call creates
NewObject(heap) == Len(heap) + 1

\* BuildContext.__init__, build_backend.py lines 28-33
BuildContextInit == [temp_dir |-> NoDir, build_info |-> {}]

\* heap[id] = obj, the heap growing when id is new
Store(heap, id, obj) ==
    [i \in 1..(IF id > Len(heap) THEN id ELSE Len(heap)) |-> IF i = id THEN obj ELSE heap[i]]

\* BuildContext.get_temp_dir, lines 48-54: created on first use
GetTempDir(ctx, made) ==
    IF ctx.temp_dir = NoDir
    THEN [ctx |-> [ctx EXCEPT !.temp_dir = Mkdtemp(made + 1)], made |-> made + 1]
    ELSE [ctx |-> ctx, made |-> made]

\* the key prepare_build stores under: python_backend.py line 65,
\* rust_python_backend.py line 73; a registered backend may store under either
InfoKeys(b) ==
    IF b = "python" THEN {"python_packages"}
    ELSE IF b = "rust-python" THEN {"cargo_toml"}
    ELSE {"python_packages", "cargo_toml"}

\* whether build asks for the temporary directory: rust_python_backend.py
\* lines 124-126 (without cargo-target-dir); never in python_backend.py
MayUseTempDir(b) == b # "python"

ContextInit ==
    /\ xarg \in {"none", "given"}
    /\ xheap = <<>>
    /\ xctx = [b \in ContextUnits |-> 0]
    /\ xpc = [b \in ContextUnits |-> "queued"]
    /\ xmade = 0

ContextOthers == <<buildVars, checkVars, keyVars, semVars, resVars, plugVars, busVars,
                   unitsVars>>

\* build_manager.py line 572 with _create_context, lines 519-528: a new
\* BuildContext; with a temp_dir argument its temp_dir is that directory, and
\* a mkdir that raises leaves the unit without a context
ContextCreate(b) ==
    /\ xpc[b] = "queued"
    /\ LET id == NewObject(xheap)
       IN  \E mkdir \in BOOLEAN :
             IF xarg = "given"
             THEN /\ xheap' = Store(xheap, id, [BuildContextInit EXCEPT !.temp_dir = GivenDir])
                  /\ IF mkdir
                     THEN xctx' = [xctx EXCEPT ![b] = id] /\ xpc' = [xpc EXCEPT ![b] = "created"]
                     ELSE UNCHANGED xctx /\ xpc' = [xpc EXCEPT ![b] = "raised"]
             ELSE /\ mkdir
                  /\ xheap' = Store(xheap, id, BuildContextInit)
                  /\ xctx' = [xctx EXCEPT ![b] = id]
                  /\ xpc' = [xpc EXCEPT ![b] = "created"]
    /\ UNCHANGED <<xarg, xmade>>
    /\ UNCHANGED ContextOthers

\* backend.prepare_build(context), build_manager.py line 588: the backend
\* stores into context.build_info when it succeeds
ContextPrepare(b) ==
    /\ xpc[b] = "created"
    /\ \E r \in BOOLEAN, k \in InfoKeys(b) :
         IF r
         THEN /\ xheap' = [xheap EXCEPT ![xctx[b]].build_info = @ \cup {<<k, b>>}]
              /\ xpc' = [xpc EXCEPT ![b] = "prepared"]
         ELSE /\ xpc' = [xpc EXCEPT ![b] = "done"]
              /\ UNCHANGED xheap
    /\ UNCHANGED <<xarg, xctx, xmade>>
    /\ UNCHANGED ContextOthers

\* backend.build(context), build_manager.py line 544: the backend may ask its
\* context for the temporary directory
ContextBuild(b) ==
    /\ xpc[b] = "prepared"
    /\ \E uses \in {FALSE, MayUseTempDir(b)} :
         IF uses
         THEN LET g == GetTempDir(xheap[xctx[b]], xmade)
              IN  /\ xheap' = [xheap EXCEPT ![xctx[b]] = g.ctx]
                  /\ xmade' = g.made
         ELSE UNCHANGED <<xheap, xmade>>
    /\ xpc' = [xpc EXCEPT ![b] = "done"]
    /\ UNCHANGED <<xarg, xctx>>
    /\ UNCHANGED ContextOthers

ContextNext ==
    \E b \in ContextUnits : ContextCreate(b) \/ ContextPrepare(b) \/ ContextBuild(b)

SpecContextInit ==
    /\ ContextInit /\ PlugUnused /\ BusUnused /\ UnitsUnused
    /\ BuildUnused /\ CheckUnused /\ KeyUnused /\ SemUnused /\ ResUnused

SpecContext == SpecContextInit /\ [][ContextNext]_vars

(***************************************************************************)
(* Properties of BuildManager.build, checked under Spec.                   *)
(***************************************************************************)
InTrace(e) == \E i \in 1..Len(trace) : trace[i] = e

\* the place of e's first occurrence in the call's trace, 0 when it has none
Pos(e) == IF InTrace(e) THEN CHOOSE i \in 1..Len(trace) :
                                 trace[i] = e /\ \A j \in 1..(i - 1) : trace[j] # e
          ELSE 0

Installs == {i \in 1..Len(trace) : trace[i][1] = "install"}

Touched(b) == unit[b].st # "none" \/ unitLog[b] # <<>>

Called(b, op) == \E i \in 1..Len(unitLog[b]) : unitLog[b][i][1] = op

\* the names the [build] table lists: the primary one ("python" when the
\* table names none), then build.backends
Listed ==
    <<IF config.build.backend = NoBackend THEN "python" ELSE config.build.backend>>
        \o config.build.backends

Selected == {Listed[i] : i \in 1..Len(Listed)}

GatesPassed ==
    LET exists    == Pos(<<"config.exists", "", "True">>)
        validated == Pos(<<"validate", "", "ok">>)
        env       == Max(Pos(<<"env.exists", "", "True">>), Pos(<<"env.create", "", "True">>))
        project   == Pos(<<"install", "project", "ok">>)
        strict    == Pos(<<"strict_check", "", "True">>)
        hook      == Pos(<<"before", "build", "True">>)
    IN  /\ 0 < exists /\ exists < validated /\ validated < env
        /\ env < project /\ project < strict /\ strict < hook
        /\ \A b \in Selected : \A k \in 1..Len(BuildRequirements(b)) :
              LET at == Pos(<<"install", BuildRequirements(b)[k], "ok">>)
              IN  env < at /\ at < project

\* C2: a backend unit is submitted, and prepare_build or build invoked, only
\* after the configuration existed and validated, the environment existed or
\* was created, every build requirement and the project dependencies were
\* installed, the strict check returned true and before("build") returned
\* true, in that order; a call that returns without all of them returns False
\* and has submitted no unit.
C2_PrePhasesAreGates ==
    /\ \A b \in Registry : Touched(b) => GatesPassed
    /\ (pc = "returned" /\ ~GatesPassed) =>
          /\ outcome = "False"
          /\ \A b \in Registry : ~Touched(b)

\* a backend with build requirements is being built in an environment the
\* call created
C2_Witness ==
    /\ InTrace(<<"env.create", "", "True">>)
    /\ Len(all_requirements) = 2
    /\ \E b \in Registry : Called(b, "prepare_build") /\ Called(b, "build")

\* the unit of b ended in success
UnitSucceeded(b) == unit[b].st = "cache_hit" \/ (unit[b].st = "done" /\ unit[b].ok)

\* C3: when the backend phase has returned, every selected backend was
\* dispatched, every submitted unit ran to its end whatever its siblings did,
\* and the result is True iff every selected backend's unit succeeded.
C3_AllUnitsDecide ==
    (pc = "returned" /\ InTrace(<<"before", "build", "True">>)) =>
        /\ \A b \in Selected : unit[b].st \in {"cache_hit", "done", "raised"}
        /\ \A b \in Registry \ Selected : unit[b].st = "none"
        /\ (outcome = "True") <=> (\A b \in Selected : UnitSucceeded(b))

\* the first backend raised in prepare_build and the one submitted after it
\* still ran build and succeeded; the call returned False
C3_Witness ==
    /\ pc = "returned"
    /\ outcome = "False"
    /\ \E a, b \in Registry :
          /\ unit[a].st = "raised"
          /\ UnitSucceeded(b)
          /\ Called(b, "build")
          /\ Position(a) < Position(b)

\* C4: a selected backend whose persisted cache entry equals the key of
\* (backend name, current configuration) is skipped: it is never queued,
\* prepare_build and build are not invoked on it, and it counts as success.
C4_CacheHitSkips ==
    \A b \in Registry :
        (Touched(b) /\ ShouldSkipBuild(cache, b, config.content)) =>
            /\ UnitSucceeded(b)
            /\ unit[b].st = "cache_hit" => unitLog[b] = <<>>

\* C5: after a backend unit succeeded, the persisted cache entry of that
\* backend holds the key of (backend name, current configuration).
C5_SuccessPersistsKey ==
    \A b \in Registry :
        (unit[b].st = "done" /\ unit[b].ok) => cache[b] = CacheKey(config.content, b)

DepsHooks == {"deps_install:build", "deps_install:project"}

Refused(i) == trace[i][1] = "before" /\ trace[i][2] \in DepsHooks /\ trace[i][3] = "False"

\* C6 as stated: when a before("deps_install") hook returned false, the call
\* returned False, no installer was invoked in it and no unit was submitted.
C6_NoInstallerAtAll ==
    (\E i \in 1..Len(trace) : Refused(i)) =>
        /\ pc = "returned" /\ outcome = "False"
        /\ Installs = {}
        /\ \A b \in Registry : ~Touched(b)

\* C6: when a before("deps_install") hook returned false, the call returned
\* False at once: nothing follows the refused hook, so no installer is invoked
\* after it and no unit is submitted; no installer was invoked at all when the
\* refused hook is the call's first deps_install hook, and otherwise the
\* installs before it are those of the build requirements.
C6_AbortsAtRefusedHook ==
    \A i \in 1..Len(trace) : Refused(i) =>
        /\ pc = "returned" /\ outcome = "False"
        /\ i = Len(trace)
        /\ \A b \in Registry : ~Touched(b)
        /\ (\A j \in 1..(i - 1) : ~(trace[j][1] = "before" /\ trace[j][2] \in DepsHooks))
              => Installs = {}
        /\ \A j \in Installs : trace[j][2] # "project"

\* the project hook refused after the build requirements were installed
C6_Witness ==
    /\ InTrace(<<"before", "deps_install:project", "False">>)
    /\ InTrace(<<"install", "wheel", "ok">>)
    /\ pc = "returned"

\* C7: when a selected backend name is not registered, the call returns False
\* with no hoisted work done: the environment is not created, no installer is
\* invoked and no backend is prepared or built.
C7_UnregisteredFailsFast ==
    (\E b \in Selected : b \notin Registry) =>
        /\ ~InTrace(<<"env.create", "", "True">>)
        /\ ~InTrace(<<"env.create", "", "False">>)
        /\ Installs = {}
        /\ \A b \in Registry : ~Touched(b)
        /\ pc = "returned" => outcome = "False"

(***************************************************************************)
(* Properties of the cache key, checked under SpecKey.                     *)
(***************************************************************************)
\* C8: for one backend, two deep-equal configurations get the same key
\* whatever the insertion order of their mappings, and two configurations
\* that differ in a value get different keys.
C8_KeyIsCanonical ==
    kpc = "done" =>
        /\ DeepEqual(cfgA, cfgB) => keyA = keyB
        /\ ~DeepEqual(cfgA, cfgB) => keyA # keyB

(***************************************************************************)
(* Properties of the strict check, checked under SpecCheck.                *)
(***************************************************************************)
Normalized(name) == Replace(name, "-", "_")

\* the verdict on one declared entry: the exact name first, then the
\* normalised one
Verdict(view, e) ==
    IF e.name \notin DOMAIN view /\ Normalized(e.name) \notin DOMAIN view
    THEN "MISSING"
    ELSE LET found == IF e.name \in DOMAIN view THEN view[e.name]
                      ELSE view[Normalized(e.name)]
         IN  IF e.spec # <<>> /\ ~SemverMatches(found, e.spec) THEN "MISMATCH"
             ELSE "OK"

InstalledView == MergeViews(sys_pkgs, venv_pkgs)

\* C9: the check never raises; an internal error yields False; otherwise it
\* returns True iff every declared dependency passes, having evaluated every
\* declared dependency and reported every failing one.
C9_AllEvaluated ==
    /\ ~checkRaised
    /\ cpc = "failed" => checkResult = "False"
    /\ cpc = "done" =>
          /\ checkResult \in {"True", "False"}
          /\ (checkResult = "True") <=>
                 (\A i \in 1..Len(declared) : Verdict(InstalledView, declared[i]) = "OK")
          /\ \A i \in 1..Len(declared) :
                Verdict(InstalledView, declared[i]) # "OK" =>
                    \E j \in 1..Len(reports) :
                        reports[j].name = declared[i].name /\ reports[j].kind # "OK"
          /\ Len(declared) > 0 => idx = Len(declared)

\* two failing dependencies, the first one missing, both reported
C9_Witness ==
    /\ cpc = "done"
    /\ checkResult = "False"
    /\ Len(reports) = 2
    /\ reports[1].kind = "MISSING"
    /\ reports[2].kind = "MISMATCH"

\* C10: each declared (name, spec) the loop has evaluated is reported MISSING
\* when neither the name nor its '-' to '_' form is in the merged mapping,
\* MISMATCH when it is present and its non-empty spec rejects the version,
\* and passes otherwise.
C10_LookupAndVerdict ==
    \A i \in 1..Len(reports) :
        /\ reports[i].name = declared[i].name
        /\ reports[i].kind = Verdict(InstalledView, declared[i])

\* a dashed name found under its underscore form passes, next to a mismatch
C10_Witness ==
    \E i, j \in 1..Len(reports) :
        /\ reports[i].name = NameDash
        /\ NameDash \notin DOMAIN merged
        /\ reports[i].kind = "OK"
        /\ reports[j].kind = "MISMATCH"

(***************************************************************************)
(* Properties of the SemVer matcher, checked under SpecSemver.             *)
(***************************************************************************)
\* C14: for every version v and base X.Y.Z, v matches "^X.Y.Z" iff
\* compare(v, X.Y.Z) >= 0 and compare(v, (X+1).0.0) < 0; X.Y.Z itself matches,
\* (X+1).0.0 does not, and a declared ^1.2.0 passes the strict check with
\* 1.2.5 installed.
C14_CaretRange ==
    /\ spc = "done" =>
          \A t \in CoreTriples : sother = Render(t) =>
              /\ caretMatch <=> (/\ CmpSemver(sver, Render(t)) >= 0
                                 /\ CmpSemver(sver, Render(<<t[1] + 1, 0, 0>>)) < 0)
              /\ sver = Render(t) => caretMatch
              /\ sver = Render(<<t[1] + 1, 0, 0>>) => ~caretMatch
    /\ CheckOne([n \in {NameA} |-> V125], NameA, SpecCaret) = "OK"

\* 10.0.0 is refused by ^9.0.0
C14_Witness ==
    /\ spc = "done"
    /\ sother = Render(<<9, 0, 0>>)
    /\ sver = Render(<<10, 0, 0>>)
    /\ ~caretMatch

\* C15: for every version v and base X.Y.Z, v matches "~X.Y.Z" iff
\* compare(v, X.Y.Z) >= 0 and compare(v, X.(Y+1).0) < 0; X.Y.Z itself matches
\* and X.(Y+1).0 does not.
C15_TildeRange ==
    spc = "done" =>
        \A t \in CoreTriples : sother = Render(t) =>
            /\ tildeMatch <=> (/\ CmpSemver(sver, Render(t)) >= 0
                               /\ CmpSemver(sver, Render(<<t[1], t[2] + 1, 0>>)) < 0)
            /\ sver = Render(t) => tildeMatch
            /\ sver = Render(<<t[1], t[2] + 1, 0>>) => ~tildeMatch

\* 1.10.0 is refused by ~1.9.0
C15_Witness ==
    /\ spc = "done"
    /\ sother = Render(<<1, 9, 0>>)
    /\ sver = Render(<<1, 10, 0>>)
    /\ ~tildeMatch

\* what an atom with the given operator and operand demands of compare
AtomHolds(v, op, operand) ==
    LET c == CmpSemver(v, operand)
    IN  IF op = <<"=", "=">> THEN c = 0
        ELSE IF op = <<">", "=">> THEN c >= 0
        ELSE IF op = <<"<", "=">> THEN c <= 0
        ELSE IF op = <<">">> THEN c > 0
        ELSE IF op = <<"<">> THEN c < 0
        ELSE c = 0

\* C16: matches(version, spec) is the conjunction of the atoms that splitting
\* spec on commas and whitespace yields: none for an empty or separator-only
\* spec, which matches every version; an atom with ==, >=, <=, > or < holds
\* iff compare(version, operand) is = 0, >= 0, <= 0, > 0, < 0; an atom
\* without operator holds iff compare(version, atom) = 0.
C16_ConjunctionOfAtoms ==
    spc = "done" =>
        LET first  == sop # NoAtom /\ Len(sop \o sother) > 0
            second == stail.present /\ Len(stail.op \o stail.operand) > 0
        IN  specMatch <=> (/\ first => AtomHolds(sver, sop, sother)
                           /\ second => AtomHolds(sver, stail.op, stail.operand))

\* 1.2.5 against ">=1.0.0 <2.0.0": both atoms hold
C16_Witness ==
    /\ spc = "done"
    /\ sop = <<">", "=">>
    /\ sother = Render(<<1, 0, 0>>)
    /\ stail.present /\ stail.op = <<"<">>
    /\ sver = Render(<<1, 2, 5>>)
    /\ specMatch

\* C17: compare(a, a) = 0 and compare(a, b) = -compare(b, a) for all version
\* strings, malformed and tagged ones included.
C17_CompareAntisymmetric ==
    spc = "done" => (cmpAA = 0 /\ cmpAB = -cmpBA)

\* a release against its own prerelease
C17_Witness ==
    /\ spc = "done"
    /\ sver = <<"1", ".", "2", ".", "0", "-", "r", "c", "1">>
    /\ sother = Render(<<1, 2, 0>>)
    /\ cmpAB = -1

(***************************************************************************)
(* Backend selection, checked under Spec.                                  *)
(***************************************************************************)
FirstListed(b) == CHOOSE i \in 1..Len(Listed) :
                      Listed[i] = b /\ \A j \in 1..(i - 1) : Listed[j] # b

\* C20: the selected backend list is the primary backend name (build.backend,
\* "python" by default) followed by the entries of build.backends, each name
\* once and in first-seen order; a build dispatches one unit per name.
C20_SelectedOnce ==
    /\ pc \in {"env", "collect", "build_deps", "project_deps", "strict_check",
               "pre_build", "dispatch", "join"} => Len(backend_names) > 0
    /\ Len(backend_names) > 0 =>
          /\ backend_names[1] = Listed[1]
          /\ {backend_names[i] : i \in 1..Len(backend_names)} = Selected
          /\ \A i, j \in 1..Len(backend_names) :
                i < j => /\ backend_names[i] # backend_names[j]
                         /\ FirstListed(backend_names[i]) < FirstListed(backend_names[j])
    /\ next_backend - 1 <= Cardinality(Selected)
    /\ pc = "join" => next_backend - 1 = Cardinality(Selected)

\* no backend key and backends ["python", "rust-python"]: python is selected
\* once, and both units were dispatched
C20_Witness ==
    /\ pc = "join"
    /\ config.build.backend = NoBackend
    /\ config.build.backends = <<"python", "rust-python">>
    /\ backend_names = <<"python", "rust-python">>
    /\ unit["python"].st # "none" /\ unit["rust-python"].st # "none"

(***************************************************************************)
(* Properties of the dependency resolver, checked under SpecResolve.       *)
(***************************************************************************)
DeclaredNameSet == {rdeclared[i].name : i \in 1..Len(rdeclared)}

\* the first detection has returned and the working set is still the one it saw
FirstDetectionDone == rrounds = 0 /\ rpc \in {"remediate", "resolve"}

\* C11: detect_conflicts reports Conflict(package, installed, required_spec)
\* for every declared name of the snapshot whose installed version fails the
\* declared specifier under the `^`/`~`-aware SemVer matching, and none for a
\* declared name whose version satisfies it.
C11_ConflictIffSpecFails ==
    FirstDetectionDone =>
        \A i \in 1..Len(rdeclared) :
            LET e == rdeclared[i]
                dist == GraphGet(rgraph, e.name)
            IN  dist.found =>
                  ((\E k \in 1..Len(rconflicts) :
                       rconflicts[k] = Conflict(e.name, dist.version, e.spec, NoDepender))
                   <=> ~SemverMatches(dist.version, e.spec))

\* the line of the error message for one conflict
ConflictLine(c) ==
    <<" ", " ">> \o c.package \o <<":", " ">>
        \o <<"i", "n", "s", "t", "a", "l", "l", "e", "d", " ">> \o c.installed
        \o <<",", " ">>
        \o <<"r", "e", "q", "u", "i", "r", "e", "d", " ">> \o c.required_spec

\* C12: after the single remediation round the conflicts are detected again:
\* the flow goes on only when the working set as it then is has none, and
\* otherwise raises an error with one `package: installed X, required Y` line
\* for every remaining conflict; there is never a second round.
C12_RecheckThenListAll ==
    /\ rrounds <= 1
    /\ Len(rpip) = rrounds * Len(rconflicts)
    /\ (rrounds = 1 /\ rpc \in {"resolve", "resolved", "done"}) =>
          /\ DetectConflicts(rdeclared, rgraph, rpackaging) = <<>>
          /\ rerror = "" /\ rmessage = <<>>
    /\ (rrounds = 1 /\ rpc = "raised" /\ rquery = "ok") => rerror = "conflicts"
    /\ rerror = "conflicts" =>
          /\ rrounds = 1 /\ rpc = "raised"
          /\ rremaining = DetectConflicts(rdeclared, rgraph, rpackaging)
          /\ rremaining # <<>>
          /\ Len(rmessage) = Len(rremaining)
          /\ \A i \in 1..Len(rremaining) : rmessage[i] = ConflictLine(rremaining[i])

\* two conflicts remain after the round and both are listed
C12_Witness ==
    /\ rerror = "conflicts"
    /\ rrounds = 1
    /\ Len(rremaining) >= 2
    /\ Len(rmessage) = Len(rremaining)
    /\ rremaining # rconflicts

\* C13: when the working-set query fails (non-zero exit or unparsable output)
\* nothing is raised: the snapshot is empty and so is the conflict list.
C13_QueryFailureIsQuiet ==
    rquery \in {"exit", "garbage"} =>
        /\ rerror = ""
        /\ rpc # "raised"
        /\ rconflicts = <<>> /\ rremaining = <<>>

\* the names one requires edge away from a name of S that the snapshot holds
EdgeTargets(S) ==
    {m \in {Foo, Bar, Baz, Ghost} :
        \E n \in S :
            LET dist == GraphGet(rgraph, n)
            IN  dist.found /\ \E i \in 1..Len(dist.requires) : dist.requires[i][1] = m}

RECURSIVE ReachableFrom(_)
ReachableFrom(S) ==
    IF EdgeTargets(S) \subseteq S THEN S ELSE ReachableFrom(S \cup EdgeTargets(S))

\* C18: the transitive closure is exactly the set of names reachable from the
\* declared names through the requires edges of snapshot packages; declared
\* names absent from the snapshot are in it, and a required name absent from
\* the snapshot is in it without being expanded.
C18_ClosureIsReachability ==
    rpc \in {"resolved", "done"} =>
        /\ rclosure = ReachableFrom(DeclaredNameSet)
        /\ DeclaredNameSet \subseteq rclosure

\* a declared name the snapshot lacks, a required name the snapshot lacks,
\* and a name that is two edges away from the declared ones
C18_Witness ==
    /\ rpc = "resolved"
    /\ \E n \in DeclaredNameSet : ~GraphGet(rgraph, n).found
    /\ \E m \in rclosure \ DeclaredNameSet : ~GraphGet(rgraph, m).found
    /\ rclosure \ (DeclaredNameSet \cup EdgeTargets(DeclaredNameSet)) # {}

\* C19: for a fixed snapshot, resolve_transitive applied to its own result
\* (as declared names with empty specifiers) returns the same set.
C19_ClosureIdempotent ==
    rpc = "done" => rclosure2 = rclosure

\* the second application ran on a result larger than the declared names
C19_Witness ==
    /\ rpc = "done"
    /\ rclosure2 = rclosure
    /\ Cardinality(rclosure) >= Cardinality(DeclaredNameSet) + 2

(***************************************************************************)
(* The remaining atom forms and the parser, checked under SpecSemver.      *)
(***************************************************************************)
\* C29: an atom `!=V` holds iff compare(version, V) is not 0, and an atom
\* `~=X.Y.Z` holds iff version >= X.Y.Z and version < X.(Y+1).0.
C29_NotEqualAndCompatible ==
    spc = "done" =>
        /\ neMatch <=> CmpSemver(sver, sother) # 0
        /\ \A t \in CoreTriples :
              sother = Render(t) =>
                  (compatMatch <=> /\ CmpSemver(sver, Render(t)) >= 0
                                   /\ CmpSemver(sver, Render(<<t[1], t[2] + 1, 0>>)) < 0)

\* one component of the core, parsed on its own: 0 when missing or not a number
ComponentAlone(parts, i) ==
    IF i <= Len(parts) /\ IntParses(parts[i]) THEN IntOf(parts[i]) ELSE 0

\* C30: _parse_semver parses each component independently: the tag is what
\* follows the first '-', a missing component is 0 and a non-numeric component
\* is 0 while the other components keep their values.
C30_ComponentsIndependent ==
    spc = "done" =>
        LET dash  == FirstIndex(sver, "-", 1)
            core  == IF dash = 0 THEN sver ELSE SubSeq(sver, 1, dash - 1)
            parts == SplitOn(core, ".")
        IN  /\ sparsed.major = ComponentAlone(parts, 1)
            /\ sparsed.minor = ComponentAlone(parts, 2)
            /\ sparsed.patch = ComponentAlone(parts, 3)
            /\ sparsed.hasPre = (dash # 0)
            /\ dash # 0 => sparsed.pre = Drop(sver, dash)

(***************************************************************************)
(* The strict check of a project without dependencies (SpecCheck).         *)
(***************************************************************************)
\* C23: when the project declares no non-dev dependencies, the strict check
\* returns true without querying the isolated or the host environment.
C23_NothingDeclaredNothingQueried ==
    Len(declared) = 0 =>
        /\ queried = {}
        /\ cpc # "loop"
        /\ cpc = "done" => checkResult = "True" /\ reports = <<>>

\* nothing declared, both environments hold packages, the check returned true
C23_Witness ==
    /\ cpc = "done"
    /\ Len(declared) = 0
    /\ DOMAIN venv_pkgs # {} /\ DOMAIN sys_pkgs # {}
    /\ checkResult = "True"
    /\ queried = {}

(***************************************************************************)
(* Build requirements and the order inside a unit, checked under Spec.     *)
(***************************************************************************)
\* the requirement lists of the selected backends, one after the other
RECURSIVE DeclaredRequirements(_)
DeclaredRequirements(names) ==
    IF names = <<>> THEN <<>>
    ELSE BuildRequirements(Head(names)) \o DeclaredRequirements(Tail(names))

FirstDeclared(r) ==
    LET all == DeclaredRequirements(backend_names)
    IN  CHOOSE i \in 1..Len(all) : all[i] = r /\ \A j \in 1..(i - 1) : all[j] # r

\* the installer calls of the build requirements, as places in the trace
RequirementInstalls == {i \in Installs : trace[i][2] # "project"}

Collected == InTrace(<<"get_build_requirements", "", "ok">>)

UnitSteps == <<"before:backend_prepare", "prepare_build", "after:backend_prepare",
               "before:backend_build", "build", "after:backend_build">>

StepRank(op) ==
    IF \E k \in 1..Len(UnitSteps) : UnitSteps[k] = op
    THEN CHOOSE k \in 1..Len(UnitSteps) : UnitSteps[k] = op
    ELSE 0

\* a pre-hook or prepare_build answering false
Refusals == {<<"before:backend_prepare", "False">>, <<"prepare_build", "False">>,
             <<"before:backend_build", "False">>}

\* C22: within one backend unit the calls happen in the order
\* before(backend_prepare), prepare_build, after(backend_prepare),
\* before(backend_build), build, after(backend_build), no step before an
\* earlier one; a pre-hook or prepare_build returning false ends the unit as
\* failed without backend.build being invoked.
C22_UnitStepsInOrder ==
    \A b \in Registry :
        LET log == unitLog[b]
        IN  /\ \A i, j \in 1..Len(log) :
                  i < j => StepRank(log[i][1]) < StepRank(log[j][1])
            /\ \A j \in 1..Len(log) :
                  StepRank(log[j][1]) > 1 =>
                      /\ j > 1
                      /\ \/ StepRank(log[j - 1][1]) = StepRank(log[j][1]) - 1
                         \/ /\ log[j][1] = "after:backend_build"
                            /\ log[j - 1][1] = "before:backend_build"
                            /\ build_type \notin {"wheel", "both"}
                      /\ log[j - 1] \notin Refusals
                      /\ log[j - 1][2] # "raise"
            /\ \A i \in 1..Len(log) :
                  log[i] \in Refusals =>
                      /\ i = Len(log)
                      /\ unit[b].st \notin {"prepare", "before_build", "build"}
                      /\ ~unit[b].ok
                      /\ ~Called(b, "build")

\* one unit went through all six steps while another stopped at a refusing
\* prepare_build
C22_Witness ==
    \E b, c \in Registry :
        /\ [i \in 1..Len(unitLog[b]) |-> unitLog[b][i][1]] = UnitSteps
        /\ unit[b].ok
        /\ Len(unitLog[c]) = 2
        /\ unitLog[c][2] = <<"prepare_build", "False">>
        /\ ~unit[c].ok

(***************************************************************************)
(* The install phase and the remediation round (SpecResolve).              *)
(***************************************************************************)
\* the requirement string of a declared entry, as install_declared builds it
DeclaredRequirement(e) == e.name \o e.spec

\* C26: the installer is invoked for every declared package before any
\* conflict detection, and detection is entered only when an install exits
\* non-zero; when every install exits zero the resolver finishes without
\* detection or remediation.
C26_InstallThenDetectOnFailure ==
    rquery # "none" =>
        /\ \A i \in 1..Len(rdeclared) :
              \E k \in 1..Len(rpip) : rpip[k] = DeclaredRequirement(rdeclared[i])
        /\ Len(rpip) >= Len(rdeclared)

ConflictingPackages == {rconflicts[i].package : i \in 1..Len(rconflicts)}

\* C28: on detected conflicts each conflicting package gets exactly one
\* remediation install, invoked with the package name followed by the exact
\* required specifier string.
C28_OneInstallPerPackage ==
    rrounds = 1 =>
        /\ \A k \in 1..Len(rpip) :
              \E i \in 1..Len(rconflicts) :
                  rpip[k] = rconflicts[i].package \o rconflicts[i].required_spec
        /\ \A p \in ConflictingPackages :
              Cardinality({k \in 1..Len(rpip) :
                              \E i \in 1..Len(rconflicts) :
                                  /\ rconflicts[i].package = p
                                  /\ rpip[k] = p \o rconflicts[i].required_spec}) = 1

(***************************************************************************)
(* Properties of the plugin hooks, checked under SpecPlugins.              *)
(***************************************************************************)
HookCalls(hook) == SelectSeq(hcalls, LAMBDA c : c[1] = hook)

\* C24: before() returns False iff at least one loaded plugin's before hook
\* returns a falsy value or raises, and True otherwise, also when no plugin is
\* loaded; after() never raises and calls every loaded plugin's after hook
\* even when an earlier one raised.
C24_BeforeAllAfterAll ==
    /\ ~hescaped
    /\ hresult # "none" =>
          /\ hresult = "False" <=>
                \E i \in 1..Len(hplugins) : hplugins[i].before \in {"False", "None", "raise"}
          /\ hresult = "True" <=>
                \A i \in 1..Len(hplugins) : hplugins[i].before = "True"
          /\ HookCalls("before") = [i \in 1..Len(hplugins) |-> <<"before", i>>]
    /\ hpc = "done" =>
          HookCalls("after") = [i \in 1..Len(hplugins) |-> <<"after", i>>]

\* a raising first plugin, a refusing second and a willing third: before()
\* returned False, and after() reached the plugins behind the raising one
C24_Witness ==
    /\ hpc = "done"
    /\ Len(hplugins) = 3
    /\ hplugins[1].before = "raise" /\ hplugins[1].after = "raise"
    /\ hplugins[2].before = "None"
    /\ hplugins[3].before = "True"
    /\ hresult = "False"
    /\ Len(HookCalls("after")) = 3

(***************************************************************************)
(* Properties of EventBus.publish, checked under SpecBus.                  *)
(***************************************************************************)
BusAtRest == epc["pub"] = "done" /\ epc["other"] = "idle" /\ eops = 0

\* C25: publish invokes, in subscription order, exactly the handlers that
\* were subscribed under the event when publish copied the list; a raising
\* handler does not stop the others and publish never raises; a subscribe or
\* unsubscribe during delivery, by a handler or by another thread, does not
\* change what the publish in flight delivers, and cannot deadlock since the
\* handlers run outside the lock.
C25_DeliversTheSnapshot ==
    /\ ~eescaped
    /\ epc["pub"] \in {"deliver", "done"} =>
          /\ eidx - 1 <= Len(esnap)
          /\ edelivered = SubSeq(esnap, 1, eidx - 1)
          /\ elock # "pub"
    /\ epc["pub"] = "done" => edelivered = esnap
    /\ epc["pub"] \in {"idle", "locked"} => edelivered = <<>>
    /\ elock = "pub" <=> epc["pub"] = "locked"
    /\ elock = "other" <=> epc["other"] = "locked"
    /\ BusAtRest \/ ENABLED BusNext

\* the publish delivered a raising handler and the one behind it while the
\* live list was changed under it
C25_Witness ==
    /\ epc["pub"] = "done"
    /\ esnap = <<"h_raise", "h_sub">>
    /\ edelivered = esnap
    /\ esubs[Ev] # esnap
    /\ eops < MaxOps

(***************************************************************************)
(* The shared environment in the concurrent phase, checked under SpecUnits.*)
(***************************************************************************)
\* C27: once the concurrent backend phase has started, no backend unit issues
\* an environment creation or an installer command, so two units never run
\* the installer against the same environment at the same time.
C27_InstallerOnlyInPrePhase ==
    /\ ulog = <<>>
    /\ Cardinality(uinflight) <= 1

\* the second half of C27 on its own: never two installs at once
C27_NeverTwoInstallsAtOnce == Cardinality(uinflight) <= 1

(***************************************************************************)
(* The order of versions, checked under SpecSemver.                        *)
(***************************************************************************)
\* the numeric core of a parsed version
CoreOf(p) == <<p.major, p.minor, p.patch>>

\* lexicographic order of two cores: -1, 0 or 1
LexSign(x, y) ==
    IF x = y THEN 0
    ELSE LET k == CHOOSE i \in 1..3 : x[i] # y[i] /\ \A j \in 1..(i - 1) : x[j] = y[j]
         IN  IF x[k] < y[k] THEN -1 ELSE 1

\* C31: compare orders versions by (major, minor, patch) lexicographically;
\* with equal cores a version with a prerelease tag is strictly less than one
\* without, and two tagged versions compare equal whatever their tags.
C31_CoreThenTag ==
    spc = "done" =>
        LET a == ParseSemver(sver)
            b == ParseSemver(sother)
            taggedA == a.hasPre /\ a.pre # <<>>
            taggedB == b.hasPre /\ b.pre # <<>>
        IN  IF CoreOf(a) # CoreOf(b) THEN cmpAB = LexSign(CoreOf(a), CoreOf(b))
            ELSE IF taggedA /\ ~taggedB THEN cmpAB = -1
            ELSE IF taggedB /\ ~taggedA THEN cmpAB = 1
            ELSE cmpAB = 0

\* 1.2.0-rc1 against 1.2.0-beta: equal, although the tags differ
C31_Witness ==
    /\ spc = "done"
    /\ sver = <<"1", ".", "2", ".", "0", "-", "r", "c", "1">>
    /\ sother = <<"1", ".", "2", ".", "0", "-", "b", "e", "t", "a">>
    /\ cmpAB = 0 /\ cmpBA = 0

(***************************************************************************)
(* Conflicts of transitive requirements, checked under SpecResolve.        *)
(***************************************************************************)
\* for every requirement (D, spec) of a snapshot package P with D in the
\* snapshot: a conflict for D with depender P is reported iff D's version
\* fails spec
DependerConflictsExact ==
    \A p \in 1..Len(rgraph) :
        \A r \in 1..Len(rgraph[p].requires) :
            LET d == rgraph[p].requires[r][1]
                spec == rgraph[p].requires[r][2]
                dist == GraphGet(rgraph, d)
            IN  dist.found =>
                  ((\E k \in 1..Len(rconflicts) :
                       rconflicts[k] = Conflict(d, dist.version, spec, rgraph[p].name))
                   <=> ~SemverMatches(dist.version, spec))

\* a conflict without depender comes from a declared entry, one with a
\* depender from a requirement of that package
DependerMarksOrigin ==
    \A k \in 1..Len(rconflicts) :
        LET c == rconflicts[k]
        IN  IF c.depender = NoDepender
            THEN \E i \in 1..Len(rdeclared) :
                    rdeclared[i].name = c.package /\ rdeclared[i].spec = c.required_spec
            ELSE LET p == GraphGet(rgraph, c.depender)
                 IN  /\ p.found
                     /\ \E r \in 1..Len(p.requires) :
                           p.requires[r] = <<c.package, c.required_spec>>

RECURSIVE RequirementCount(_)
RequirementCount(graph) ==
    IF graph = <<>> THEN 0
    ELSE Len(graph[1].requires) + RequirementCount(Tail(graph))

ResolverNames == [i \in 1..Len(rdeclared) |-> rdeclared[i].name]

\* C33: resolve_transitive ends on every snapshot, cycles and self-loops
\* included: its loop runs at most once per declared name and per requirement
\* edge of the snapshot, reads the requirements of no name twice, and returns
\* the names it expanded.
C33_WalkEndsExpandingOnce ==
    rpc = "resolved" =>
        LET run == WalkRun(ResolverNames, {}, rgraph, <<>>, 0)
        IN  /\ run.pops <= Len(rdeclared) + RequirementCount(rgraph)
            /\ \A i, j \in 1..Len(run.expanded) :
                  i # j => run.expanded[i] # run.expanded[j]
            /\ {run.expanded[i] : i \in 1..Len(run.expanded)} = rclosure
            /\ run.selected = rclosure

\* foo and bar require each other, baz requires itself, and a name is on the
\* stack twice when it is popped
C33_Witness ==
    /\ rpc = "resolved"
    /\ \E i \in 1..Len(RequiresOf(rgraph, Foo)) : RequiresOf(rgraph, Foo)[i][1] = Bar
    /\ \E i \in 1..Len(RequiresOf(rgraph, Bar)) : RequiresOf(rgraph, Bar)[i][1] = Foo
    /\ \E i \in 1..Len(RequiresOf(rgraph, Baz)) : RequiresOf(rgraph, Baz)[i][1] = Baz
    /\ {Foo, Bar, Baz} \subseteq rclosure
    /\ LET run == WalkRun(ResolverNames, {}, rgraph, <<>>, 0)
       IN  run.pops > Len(run.expanded)

(***************************************************************************)
(* What the two queries touch, checked under SpecResolve.                  *)
(***************************************************************************)
\* C34: a step of detect_conflicts or resolve_transitive issues no installer
\* command and leaves the installed set as it was; installer commands are
\* issued, and the installed set changes, only in the remediation step.
C34_QueriesOnlyRead ==
    [][rpc # "remediate" => rpip' = rpip /\ rgraph' = rgraph]_vars

\* both detections and the closure ran around one remediation: the installer
\* saw the remediation's commands and nothing else
C34_Witness ==
    /\ rpc = "resolved"
    /\ rquery = "ok"
    /\ rrounds = 1
    /\ rconflicts # <<>>
    /\ rremaining = <<>>
    /\ rclosure # {}
    /\ Len(rpip) = Len(rconflicts)

(***************************************************************************)
(* A failed install without conflicts, checked under SpecResolve.          *)
(***************************************************************************)
\* C40: when the install phase failed and the detection that follows found no
\* conflict, nothing is raised: the next step is the transitive closure and it
\* returns its result to the copy step.
C40_NoConflictNoError ==
    [][rpc = "resolve" /\ rrounds = 0 /\ rconflicts = <<>> => rpc' = "resolved"]_vars

(***************************************************************************)
(* Which view the strict check reads, checked under SpecCheck.             *)
(***************************************************************************)
\* the verdict on a version found for a spec
VersionVerdict(version, spec) ==
    IF spec # <<>> /\ ~SemverMatches(version, spec) THEN "MISMATCH" ELSE "OK"

\* C35: a declared name listed by the project environment is judged by the
\* project environment's version, whatever the host lists for it; the host's
\* version of a name decides only when the project environment does not list
\* that name.
C35_IsolatedViewFirst ==
    \A i \in 1..Len(reports) :
        LET n == declared[i].name
            spec == declared[i].spec
        IN  /\ n \in DOMAIN venv_pkgs =>
                  reports[i].kind = VersionVerdict(venv_pkgs[n], spec)
            /\ n \notin DOMAIN venv_pkgs /\ n \in DOMAIN sys_pkgs =>
                  reports[i].kind = VersionVerdict(sys_pkgs[n], spec)

\* a name both views list at different versions, refused on the project
\* environment's version although the host's would pass; and a name only the
\* host lists
C35_Witness ==
    /\ \E i \in 1..Len(reports) :
          LET n == declared[i].name
          IN  /\ n \in DOMAIN venv_pkgs /\ n \in DOMAIN sys_pkgs
              /\ venv_pkgs[n] # sys_pkgs[n]
              /\ reports[i].kind = "MISMATCH"
              /\ VersionVerdict(sys_pkgs[n], declared[i].spec) = "OK"
    /\ \E i \in 1..Len(reports) :
          LET n == declared[i].name
          IN  n \notin DOMAIN venv_pkgs /\ n \in DOMAIN sys_pkgs

(***************************************************************************)
(* The verdict of the backend phase, checked under Spec.                   *)
(***************************************************************************)
\* C37: the boolean build returns after the backend phase does not depend on
\* the order the units finished in: every selected backend contributes one
\* entry to results, as many of them False as units failed, and the result
\* is True iff none did.
C37_VerdictIgnoresOrder ==
    (pc = "returned" /\ InTrace(<<"before", "build", "True">>)) =>
        /\ Len(results) = Cardinality(Selected)
        /\ Cardinality({i \in 1..Len(results) : ~results[i]})
              = Cardinality({b \in Selected : ~UnitSucceeded(b)})
        /\ (outcome = "True") <=> ({b \in Selected : ~UnitSucceeded(b)} = {})
        /\ (outcome = "False") <=> (\E b \in Selected : ~UnitSucceeded(b))

\* two units ran; the one submitted second finished first and succeeded, the
\* one submitted first failed: results is <<TRUE, FALSE>> and build is False
C37_Witness ==
    /\ pc = "returned"
    /\ outcome = "False"
    /\ Len(backend_names) = 2
    /\ results = <<TRUE, FALSE>>
    /\ unit[backend_names[1]].st = "done" /\ ~unit[backend_names[1]].ok
    /\ unit[backend_names[2]].st = "done" /\ unit[backend_names[2]].ok

(***************************************************************************)
(* The post-hooks of a backend unit, checked under Spec.                   *)
(***************************************************************************)
\* the entry of b's log just before its first entry for op
Before(b, op) ==
    LET log == unitLog[b]
    IN  IF \E k \in 2..Len(log) : log[k][1] = op
        THEN log[(CHOOSE k \in 2..Len(log) : log[k][1] = op) - 1]
        ELSE <<"", "">>

\* the last entry of b's log
LastOf(b) == IF unitLog[b] = <<>> THEN <<"", "">> ELSE unitLog[b][Len(unitLog[b])]

\* after("backend_prepare") follows a prepare_build that returned true
AfterPrepareOnlyOnTrue ==
    \A b \in Registry :
        Called(b, "after:backend_prepare") =>
            Before(b, "after:backend_prepare") = <<"prepare_build", "True">>

\* a raising prepare_build or build is the unit's last step: no post-hook, the
\* unit failed, and the call that has returned gave False to its caller
RaiseEndsUnit ==
    \A b \in Registry :
        \A i \in 1..Len(unitLog[b]) :
            unitLog[b][i][2] = "raise" =>
                /\ i = Len(unitLog[b])
                /\ unit[b].st = "raised"
                /\ ~UnitSucceeded(b)
                /\ ~escaped
                /\ pc = "returned" => outcome = "False"

ContextOf(b) == xheap[xctx[b]]

\* C36: every backend unit has a BuildContext of its own: no two units hold
\* the same object, a context's build_info holds only what its own backend
\* stored, and a temporary directory created on first use belongs to one
\* context only.
C36_ContextsAreOwn ==
    \A a, b \in ContextUnits :
        (a # b /\ xctx[a] # 0 /\ xctx[b] # 0) =>
            /\ xctx[a] # xctx[b]
            /\ \A e \in ContextOf(b).build_info : e[2] = b
            /\ xpc[b] = "prepared" => \E e \in ContextOf(b).build_info : e[2] = b
            /\ ContextOf(a).temp_dir \notin {NoDir, GivenDir} =>
                  ContextOf(a).temp_dir # ContextOf(b).temp_dir

\* all three units prepared, two of them storing under the same key, and two
\* created their temporary directories
C36_Witness ==
    /\ \A b \in ContextUnits : xpc[b] = "done" /\ xctx[b] # 0
    /\ <<"cargo_toml", "rust-python">> \in ContextOf("rust-python").build_info
    /\ <<"cargo_toml", "ext">> \in ContextOf("ext").build_info
    /\ <<"python_packages", "python">> \in ContextOf("python").build_info
    /\ ContextOf("rust-python").temp_dir \notin {NoDir, GivenDir}
    /\ ContextOf("ext").temp_dir \notin {NoDir, GivenDir}

====
